---- MODULE Spec2Model ----
(***************************************************************************)
(* The solve orchestrator of the IronShield CLI: SolveConfig::new, the     *)
(* library entry point solve::solve_challenge with its race coordinator    *)
(* solve_multithreaded and its single-worker path, and the client entry    *)
(* point IronShieldClient::solve_challenge with its expiry check and its   *)
(* verification of the solution.                                           *)
(*                                                                         *)
(* The specifications share the variables:                                 *)
(*   Spec        one solve call: the coordinator, the blocking worker      *)
(*               tasks and the clock, freely interleaved;                  *)
(*   SpecConfig  SolveConfig::new applied to every input of a bounded set; *)
(*   SpecScenario  one multithreaded solve call with an override of four   *)
(*               threads, the configuration of the tests of solve.rs;      *)
(*   SpecProgress  one two-worker race whose solvers invoke their progress *)
(*               callbacks;                                                *)
(*   SpecTelemetry  the telemetry arithmetic of solve::solve_challenge     *)
(*               applied to every input of a bounded set;                  *)
(*   SpecCalls   solve calls that follow one another;                      *)
(*   SpecValidate  validate_challenge: fetch, solve, submit;               *)
(*   SpecTracker  the VerboseProgressTracker of the CLI;                   *)
(*   SpecFair    Spec with a fair race coordinator;                        *)
(*   SpecWide    the telemetry of the library and of the CLI in 64-bit     *)
(*               arithmetic;                                               *)
(*   SpecDisplay  solve_challenge_with_display around one solve call;      *)
(*   SpecFetch   fetch_challenge on every response of a bounded set;       *)
(*   SpecResponse  ApiResponse::from_json and extract_challenge;           *)
(*   SpecMain    the configuration resolution of main.                    *)
(***************************************************************************)
EXTENDS Integers, Sequences, FiniteSets

\* ---------------------------------------------------------------- bounds
\* Largest num_threads override, hence the largest number of race workers.
MaxThreads == 3
\* Core count of the machine the solve call runs on (num_cpus::get()).
MachineCores == 3
\* Largest core count SolveConfig::new is applied to under SpecConfig.
MaxCores == 10
\* Largest override SolveConfig::new is applied to under SpecConfig.
MaxOverride == 6
\* Clock values (epoch milliseconds) range over 0..MaxTime.
MaxTime == 2
\* The expiration_time of the challenge the call is given.
Deadline == 1
\* How many times the solvers of one race invoke a progress callback.
MaxCallbacks == 3
\* Batch sizes handed to a progress callback range over 1..MaxBatch.
MaxBatch == 2
\* Nonces range over 0..MaxNonce where a nonce space is enumerated.
MaxNonce == 9
\* Elapsed milliseconds the telemetry is applied to range over 0..MaxElapsed.
MaxElapsed == 3
\* The progress tracker is handed batches of 1..MaxTrackerBatch half batches
\* of the solver, up to a total of MaxTrackerTotal half batches per thread.
MaxTrackerBatch == 5
\* How many solve calls follow one another under SpecCalls.
MaxCalls == 2
\* How many lines the periodic progress task of the wrapper logs at most.
MaxTicks == 2
MaxTrackerTotal == 12

\* ---------------------------------------------------------------- values
\* num_threads: Some(4), the override of the tests of solve.rs.
ScenarioThreads == 4

\* The identifiers of the worker tasks (thread_id).
Workers == 0 .. (IF MaxThreads >= ScenarioThreads THEN MaxThreads - 1
                                                   ELSE ScenarioThreads - 1)

\* Option<usize>
None == [tag |-> "None", v |-> 0]
Some(k) == [tag |-> "Some", v |-> k]

\* How far into its partition a worker's solver finds its nonce: the nonce
\* is offset + round * stride.
Rounds == {0, 100}

\* What a JoinHandle yields: Ok(Ok(solution)), Ok(Err(e)) or Err(JoinError).
Solution(n) == [tag |-> "Solution", nonce |-> n]
Failure == [tag |-> "Failure", nonce |-> 0]
JoinError == [tag |-> "JoinError", nonce |-> 0]
NoOutcome == [tag |-> "None", nonce |-> 0]

\* A worker's progress callback between two invocations, and one that has
\* read the flag as seen and has not yet added its batch.
NoCallback == [tag |-> "none", batch_attempts |-> 0, seen |-> FALSE]
Passed(b, seen) == [tag |-> "passed", batch_attempts |-> b, seen |-> seen]

\* What the telemetry of a solve call logged.
NoTelemetry == [logged |-> FALSE, estimated_total_attempts |-> 0, hash_rate |-> 0]

\* What earlier solve calls left behind when they returned: how many they
\* were, whether one left its flag set, whether one left a counter above 0.
NoEarlierCalls == [count |-> 0, solution_found |-> FALSE, attempts |-> FALSE]

\* validate_challenge before it is called.
NoValidation ==
    [stage |-> "none", calls |-> <<>>, fetched |-> "none", submitted |-> "none",
     result |-> [tag |-> "None", nonce |-> 0, err |-> "none"]]

\* What a solve call returns.
Ok(n) == [tag |-> "Ok", nonce |-> n, err |-> "none"]
Err(e) == [tag |-> "Err", nonce |-> 0, err |-> e]
Panic == [tag |-> "Panic", nonce |-> 0, err |-> "none"]
NoResult == [tag |-> "None", nonce |-> 0, err |-> "none"]

\* solve_challenge_with_display has not been called.
NoDisplay ==
    [stage |-> "none", verbose |-> FALSE, animation |-> "none",
     progress_task |-> "none", ticks |-> 0, tracker |-> FALSE,
     strategy |-> "none", telemetry |-> NoTelemetry, result |-> NoResult]

\* fetch_challenge has not been called.
NoHttp == [stage |-> "none", response |-> "none", checks |-> <<>>,
           result |-> "none"]

\* No JSON has been parsed.
NoApiResponse == [stage |-> "none", json |-> "none", status |-> 0,
                  extracted |-> "none"]

\* main has not run.
NoCli == [stage |-> "none", args |-> "none", final_config_path |-> None,
          verbose |-> FALSE]

VARIABLES
    entry,               \* which entry point was called: "none", "lib", "client"
    pc,                  \* where the coordinating task is suspended
    config,              \* ClientConfig: [num_threads: Option<usize>]
    arg_use_multithreaded, \* the use_multithreaded argument
    available_cores,     \* num_cpus::get()
    solve_config,        \* SolveConfig: [thread_count, use_multithreaded]
    now,                 \* the clock
    call_time,           \* the clock when the call was made
    expiration_time,     \* challenge.expiration_time
    verifier_accepts,    \* what verify_ironshield_solution answers
    wstate,              \* per worker: unspawned, queued, running, done, cancelled
    wargs,               \* per worker: the offset and stride given to the solver
    outcome,             \* per worker: what its JoinHandle yields
    remaining_handles,   \* the Vec of handles the coordinator still awaits
    abort_requested,     \* the handles abort() was called on
    solution_found,      \* the shared AtomicBool
    accepted,            \* the workers whose Solution the coordinator accepted
    first_solved,        \* the worker that completed with a Solution first
    waits,               \* how many select_all waits have completed
    verify_calls,        \* the nonces verify_ironshield_solution was called with
    result,              \* what the call returned
    cumulative_attempts, \* per worker: its AtomicU64 counter
    callback,            \* per worker: the progress callback invocation under way
    reported,            \* per worker: the progress reports it logged, in order
    suppressed,          \* per worker: the invocations that returned at the flag
    solver_calls,        \* per worker: how often its solver was invoked
    steps,               \* the steps of the call so far, in order
    elapsed_millis,      \* start_time.elapsed() when the search returned
    telemetry,           \* what the telemetry logged
    outcome_count,       \* per worker: how many outcomes its closure produced
    earlier_calls,       \* what the solve calls before this one left behind
    validation,          \* validate_challenge: its stage, calls and result
    last_logged,         \* VerboseProgressTracker: the map last_logged
    logged_lines,        \* VerboseProgressTracker: the lines printed, per thread
    display,             \* solve_challenge_with_display: its helpers and result
    http,                \* fetch_challenge: the response and what became of it
    api_response,        \* ApiResponse: the JSON parsed and what it yields
    cli,                 \* main: the arguments and the configuration resolved
    overflow_checks      \* the build profile: whether an overflow panics

vars == <<entry, pc, config, arg_use_multithreaded, available_cores, solve_config,
          now, call_time, expiration_time, verifier_accepts, wstate, wargs,
          outcome, remaining_handles, abort_requested, solution_found,
          accepted, first_solved, waits, verify_calls, result,
          cumulative_attempts, callback, reported, suppressed, solver_calls,
          steps, elapsed_millis, telemetry, outcome_count, earlier_calls,
          validation, last_logged, logged_lines, display, http, api_response,
          cli, overflow_checks>>

\* The state of fetch_challenge, of ApiResponse and of main, and the build.
edge_vars == <<http, api_response, cli, overflow_checks>>

\* The state of the verbose progress tracker.
tracker_vars == <<last_logged, logged_lines>>

\* The state of the progress callbacks.
progress_vars == <<cumulative_attempts, callback, reported, suppressed>>

\* ------------------------------------------------------- SolveConfig::new
Max(a, b) == IF a >= b THEN a ELSE b

\* The use_multithreaded test left out: the override always applies.
ThreadCountFlagIgnored(num_threads, use_multithreaded, cores) ==
    IF num_threads.tag = "Some"
    THEN num_threads.v
    ELSE Max(1, (cores * 4) \div 5)

\* The override capped by the number of cores.
ThreadCountCapped(num_threads, use_multithreaded, cores) ==
    IF use_multithreaded
    THEN IF num_threads.tag = "Some"
         THEN IF num_threads.v <= cores THEN num_threads.v ELSE cores
         ELSE Max(1, (cores * 4) \div 5)
    ELSE 1

\* Three quarters of the cores instead of four fifths, and no minimum.
ThreadCountThreeQuarters(num_threads, use_multithreaded, cores) ==
    IF use_multithreaded
    THEN IF num_threads.tag = "Some"
         THEN num_threads.v
         ELSE (cores * 3) \div 4
    ELSE 1

ThreadCount(num_threads, use_multithreaded, cores) ==
    IF use_multithreaded
    THEN IF num_threads.tag = "Some"
         THEN num_threads.v
         ELSE Max(1, (cores * 4) \div 5)
    ELSE 1

SolveConfigNew(cfg, use_multithreaded, cores) ==
    [thread_count |-> ThreadCount(cfg.num_threads, use_multithreaded, cores),
     use_multithreaded |-> use_multithreaded]

NoSolveConfig == [thread_count |-> 0, use_multithreaded |-> FALSE]

\* ------------------------------------------------------------ one solve call
Init ==
    /\ entry = "none"
    /\ pc = "idle"
    /\ config = [num_threads |-> None]
    /\ arg_use_multithreaded = FALSE
    /\ available_cores = MachineCores
    /\ solve_config = NoSolveConfig
    /\ now = 0
    /\ call_time = 0
    /\ expiration_time = Deadline
    /\ verifier_accepts \in BOOLEAN
    /\ wstate = [i \in Workers |-> "unspawned"]
    /\ wargs = [i \in Workers |-> [offset |-> 0, stride |-> 0]]
    /\ outcome = [i \in Workers |-> NoOutcome]
    /\ remaining_handles = <<>>
    /\ abort_requested = {}
    /\ solution_found = FALSE
    /\ accepted = {}
    /\ first_solved = {}
    /\ waits = 0
    /\ verify_calls = <<>>
    /\ result = NoResult
    /\ cumulative_attempts = [i \in Workers |-> 0]
    /\ callback = [i \in Workers |-> NoCallback]
    /\ reported = [i \in Workers |-> <<>>]
    /\ suppressed = [i \in Workers |-> 0]
    /\ solver_calls = [i \in Workers |-> 0]
    /\ steps = <<>>
    /\ elapsed_millis = 0
    /\ telemetry = NoTelemetry
    /\ outcome_count = [i \in Workers |-> 0]
    /\ earlier_calls = NoEarlierCalls
    /\ validation = NoValidation
    /\ last_logged = <<>>
    /\ logged_lines = [i \in Workers |-> <<>>]
    /\ display = NoDisplay
    /\ http = NoHttp
    /\ api_response = NoApiResponse
    /\ cli = NoCli
    /\ overflow_checks = FALSE

\* The values config.num_threads can hold in one solve call.
Overrides == {None} \cup {Some(k) : k \in 0 .. MaxThreads}

\* The clock advances.
Tick ==
    /\ now < MaxTime
    /\ now' = now + 1
    /\ UNCHANGED <<entry, pc, config, arg_use_multithreaded, available_cores,
                   solve_config, call_time, expiration_time, verifier_accepts,
                   wstate, wargs, outcome, remaining_handles, abort_requested,
                   solution_found, accepted, first_solved, waits, verify_calls,
                   result, progress_vars, solver_calls, steps, elapsed_millis,
                   telemetry,
                   outcome_count, earlier_calls, validation, tracker_vars, display, edge_vars>>

\* Offsets counted from 1: worker i gets offset i + 1.
SpawnRaceFromOne(n) ==
    /\ wstate' = [i \in Workers |-> IF i < n THEN "queued" ELSE "unspawned"]
    /\ wargs' = [i \in Workers |->
                    IF i < n THEN [offset |-> i + 1, stride |-> n]
                             ELSE [offset |-> 0, stride |-> 0]]
    /\ remaining_handles' = [j \in 1 .. n |-> j - 1]

\* A loop over 1..n: no worker 0 is spawned.
SpawnRaceSkipFirst(n) ==
    /\ wstate' = [i \in Workers |->
                     IF i >= 1 /\ i < n THEN "queued" ELSE "unspawned"]
    /\ wargs' = [i \in Workers |->
                    IF i >= 1 /\ i < n THEN [offset |-> i, stride |-> n]
                                       ELSE [offset |-> 0, stride |-> 0]]
    /\ remaining_handles' = [j \in 1 .. (n - 1) |-> j]

\* tokio::task::spawn_blocking for thread_id in 0..n: worker i gets offset i
\* and stride n.
SpawnRace(n) ==
    /\ wstate' = [i \in Workers |-> IF i < n THEN "queued" ELSE "unspawned"]
    /\ wargs' = [i \in Workers |->
                    IF i < n THEN [offset |-> i, stride |-> n]
                             ELSE [offset |-> 0, stride |-> 0]]
    /\ remaining_handles' = [j \in 1 .. n |-> j - 1]

\* One spawn_blocking of the unpartitioned search: offset 0, stride 1.
SpawnSingle ==
    /\ wstate' = [i \in Workers |-> IF i = 0 THEN "queued" ELSE "unspawned"]
    /\ wargs' = [i \in Workers |->
                    IF i = 0 THEN [offset |-> 0, stride |-> 1]
                             ELSE [offset |-> 0, stride |-> 0]]
    /\ remaining_handles' = <<0>>

\* A flag that outlives the call: the new call finds it as it was left.
FlagCarriedOver == solution_found

\* Arc::new(AtomicBool::new(false))
FreshFlag == FALSE

\* What a call creates when it starts: the flag, and for the closures it
\* spawns their counters; what the call has observed so far is empty.
FreshCall ==
    /\ solution_found' = FreshFlag
    /\ cumulative_attempts' = [i \in Workers |-> 0]
    /\ callback' = [i \in Workers |-> NoCallback]
    /\ reported' = [i \in Workers |-> <<>>]
    /\ suppressed' = [i \in Workers |-> 0]
    /\ outcome' = [i \in Workers |-> NoOutcome]
    /\ outcome_count' = [i \in Workers |-> 0]
    /\ solver_calls' = [i \in Workers |-> 0]
    /\ abort_requested' = {}
    /\ accepted' = {}
    /\ first_solved' = {}
    /\ waits' = 0
    /\ verify_calls' = <<>>
    /\ elapsed_millis' = 0
    /\ telemetry' = NoTelemetry

\* A race for every multithreaded configuration, one thread included.
UsesRaceAtOne(sc) == sc.use_multithreaded /\ sc.thread_count >= 1

\* The path solve::solve_challenge takes.
UsesRace(sc) == sc.use_multithreaded /\ sc.thread_count > 1

\* solve::solve_challenge up to its first await, for a config whose
\* num_threads is nt and the argument use_multithreaded = mt.
SolveChallenge(nt, mt) ==
    LET sc == SolveConfigNew([num_threads |-> nt], mt, available_cores) IN
    /\ pc = "idle"
    /\ entry' = "lib"
    /\ config' = [num_threads |-> nt]
    /\ arg_use_multithreaded' = mt
    /\ solve_config' = sc
    /\ call_time' = now
    /\ IF UsesRace(sc)
       THEN SpawnRace(sc.thread_count) /\ pc' = "race"
       ELSE SpawnSingle /\ pc' = "single"
    /\ steps' = <<"config", "spawn">>
    /\ FreshCall
    /\ result' = NoResult
    /\ UNCHANGED <<available_cores, now, expiration_time, verifier_accepts,
                   earlier_calls, tracker_vars, edge_vars>>

\* solve::solve_challenge is called.
LibCall ==
    /\ \E nt \in Overrides, mt \in BOOLEAN : SolveChallenge(nt, mt)
    /\ UNCHANGED <<validation, display>>

\* A queued blocking task is picked up by a thread of the blocking pool: its
\* closure runs up to the call of the solver.
WorkerStart(i) ==
    /\ wstate[i] = "queued"
    /\ wstate' = [wstate EXCEPT ![i] = "running"]
    /\ solver_calls' = [solver_calls EXCEPT ![i] = @ + 1]
    /\ UNCHANGED <<entry, pc, config, arg_use_multithreaded, available_cores,
                   solve_config, now, call_time, expiration_time,
                   verifier_accepts, wargs, outcome, remaining_handles,
                   abort_requested, solution_found, accepted, first_solved,
                   waits, verify_calls, result, progress_vars, steps,
                   elapsed_millis, telemetry,
                   outcome_count, earlier_calls, validation, tracker_vars, display, edge_vars>>

\* What the external solver can end with in worker i: a nonce of its own
\* partition, an error, or a panic (seen as a JoinError by the handle).
SolverOutcomes(i) ==
    {Solution(wargs[i].offset + r * wargs[i].stride) : r \in Rounds}
        \cup {Failure, JoinError}

\* The blocking closure of worker i runs to its end.
WorkerFinish(i) ==
    /\ wstate[i] = "running"
    /\ callback[i] = NoCallback
    /\ \E o \in SolverOutcomes(i) :
         /\ outcome' = [outcome EXCEPT ![i] = o]
         /\ first_solved' = IF o.tag = "Solution" /\ first_solved = {}
                            THEN {i} ELSE first_solved
    /\ wstate' = [wstate EXCEPT ![i] = "done"]
    /\ outcome_count' = [outcome_count EXCEPT ![i] = @ + 1]
    /\ UNCHANGED <<entry, pc, config, arg_use_multithreaded, available_cores,
                   solve_config, now, call_time, expiration_time,
                   verifier_accepts, wargs, remaining_handles, abort_requested,
                   solution_found, accepted, waits, verify_calls, result,
                   progress_vars, solver_calls, steps, elapsed_millis,
                   telemetry,
                   earlier_calls, validation, tracker_vars, display, edge_vars>>

\* ------------------------------------------------- the progress callback
RECURSIVE SumUpTo(_, _)
SumUpTo(f, n) == IF n < 0 THEN 0 ELSE f[n] + SumUpTo(f, n - 1)

\* How many callback invocations the solvers have made in this call.
CallbackCount ==
    SumUpTo([i \in Workers |-> Len(reported[i]) + suppressed[i]
                               + (IF callback[i] = NoCallback THEN 0 ELSE 1)],
            CHOOSE m \in Workers : \A i \in Workers : i <= m)

\* A callback that reports whatever it read.
SuppressNever(seen) == FALSE

\* if solution_found_clone.load(Ordering::Relaxed) { return; }
Suppress(seen) == seen

\* The value fetch_add returns, reported as it is.
TotalAttemptsBefore(previous, batch_attempts) == previous

\* cumulative_attempts_clone.fetch_add(batch_attempts, ..) + batch_attempts
TotalAttempts(previous, batch_attempts) == previous + batch_attempts

\* The solver of race worker i invokes progress_callback(batch_attempts):
\* the callback loads the flag and returns if it reads it as set. The load
\* yields the flag's current value.
ProgressCallbackEnter(i, batch_attempts) ==
    /\ entry = "lib" /\ UsesRace(solve_config)
    /\ wstate[i] = "running"
    /\ callback[i] = NoCallback
    /\ CallbackCount < MaxCallbacks
    /\ LET seen == solution_found IN
       IF Suppress(seen)
       THEN /\ suppressed' = [suppressed EXCEPT ![i] = @ + 1]
            /\ UNCHANGED callback
       ELSE /\ callback' = [callback EXCEPT ![i] = Passed(batch_attempts, seen)]
            /\ UNCHANGED suppressed
    /\ UNCHANGED <<entry, pc, config, arg_use_multithreaded, available_cores,
                   solve_config, now, call_time, expiration_time,
                   verifier_accepts, wstate, wargs, outcome, remaining_handles,
                   abort_requested, solution_found, accepted, first_solved,
                   waits, verify_calls, result, cumulative_attempts, reported,
                   solver_calls, steps, elapsed_millis, telemetry,
                   outcome_count, earlier_calls, validation, tracker_vars, display, edge_vars>>

\* The rest of the callback: the batch is added to the worker's counter and
\* the new total is logged (the hash rate logged with it is left out).
ProgressCallbackReport(i) ==
    /\ callback[i].tag = "passed"
    /\ cumulative_attempts' =
           [cumulative_attempts EXCEPT ![i] = @ + callback[i].batch_attempts]
    /\ reported' =
           [reported EXCEPT ![i] =
               Append(@, [batch_attempts |-> callback[i].batch_attempts,
                          seen |-> callback[i].seen,
                          total_attempts |->
                              TotalAttempts(cumulative_attempts[i],
                                            callback[i].batch_attempts)])]
    /\ callback' = [callback EXCEPT ![i] = NoCallback]
    /\ UNCHANGED <<entry, pc, config, arg_use_multithreaded, available_cores,
                   solve_config, now, call_time, expiration_time,
                   verifier_accepts, wstate, wargs, outcome, remaining_handles,
                   abort_requested, solution_found, accepted, first_solved,
                   waits, verify_calls, result, suppressed, solver_calls, steps,
                   elapsed_millis, telemetry,
                   outcome_count, earlier_calls, validation, tracker_vars, display, edge_vars>>

\* ------------------------------------------------------ the race coordinator
Range(s) == {s[j] : j \in 1 .. Len(s)}

\* The positions of the handles whose task has completed.
ReadyIdx(handles) == {j \in 1 .. Len(handles) : wstate[handles[j]] = "done"}

\* A select that yields the last ready handle instead of the first.
SelectLastReady(handles) ==
    CHOOSE j \in ReadyIdx(handles) : \A k \in ReadyIdx(handles) : j >= k

\* futures::future::select_all polls the handles in order and yields the
\* first one that is ready.
SelectAll(handles) ==
    CHOOSE j \in ReadyIdx(handles) : \A k \in ReadyIdx(handles) : j <= k

\* A removal that removes nothing.
SwapRemoveKeep(handles, idx) == handles

\* A removal that drops the last handle whatever the index.
SwapRemovePopsLast(handles, idx) ==
    [j \in 1 .. (Len(handles) - 1) |-> handles[j]]

\* Vec::swap_remove, by which select_all hands back the other handles: the
\* last handle takes the place of the one removed.
SwapRemove(handles, idx) ==
    [j \in 1 .. (Len(handles) - 1) |->
        IF j = idx THEN handles[Len(handles)] ELSE handles[j]]

\* The store to the flag left out.
FlagNotStored == FALSE

\* Ok(Ok(found_solution)): the flag is stored to.
FlagAfterSolution == TRUE

\* The loop over other_handles left out: no handle is aborted.
AbortNone(other_handles) == {}

\* Ok(Ok(found_solution)): abort() is called on every other handle.
AbortTargets(other_handles) == Range(other_handles)

\* An abort without effect on a task that has not started.
AfterAbortKeepsQueued(targets) == wstate

\* An abort that stops a task in the middle of its computation.
AfterAbortPreemptive(targets) ==
    [i \in Workers |->
        IF i \in targets /\ wstate[i] \in {"queued", "running"}
        THEN "cancelled" ELSE wstate[i]]

\* JoinHandle::abort on a blocking task: one that has not started never runs,
\* one that runs or has completed is not affected.
AfterAbort(targets) ==
    [i \in Workers |->
        IF i \in targets /\ wstate[i] = "queued" THEN "cancelled" ELSE wstate[i]]

\* A failure that ends the race: the other handles are dropped.
AfterFailureDropAll(other_handles) == <<>>

\* Ok(Err(e)): the loop goes on with the other handles.
AfterFailure(other_handles) == other_handles

\* A join error that ends the race: the other handles are dropped.
AfterJoinErrorDropAll(other_handles) == <<>>

\* Err(e), a join error: the loop goes on with the other handles.
AfterJoinError(other_handles) == other_handles

\* unwrap_or_default in place of ok_or_else: no error when nothing was found.
RaceResultDefault(solution) == Ok(solution.nonce)

\* After the loop: solution.ok_or_else(...).
RaceResult(solution) ==
    IF solution.tag = "Solution" THEN Ok(solution.nonce) ELSE Err("NoSolutionFound")

\* The rest of solve::solve_challenge: the telemetry divides the nonce by
\* thread_count and the result is handed on.
LibReturn(res, sc) ==
    IF res.tag = "Ok" /\ sc.thread_count = 0 THEN Panic ELSE res

\* An estimate that leaves out the attempt that found the nonce.
EstimatedTotalAttemptsFloor(solution_nonce, thread_count) ==
    (solution_nonce \div thread_count) * thread_count

\* estimated_attempts_per_thread * thread_count
EstimatedTotalAttempts(solution_nonce, thread_count) ==
    ((solution_nonce \div thread_count) + 1) * thread_count

\* if elapsed_millis > 0 { (total * 1000) / elapsed_millis } else { total }
HashRate(total_attempts, elapsed) ==
    IF elapsed > 0 THEN (total_attempts * 1000) \div elapsed ELSE total_attempts

\* What the Ok arm of solve::solve_challenge logs.
Telemetry(solution_nonce, thread_count, elapsed) ==
    [logged |-> TRUE,
     estimated_total_attempts |->
         EstimatedTotalAttempts(solution_nonce, thread_count),
     hash_rate |->
         HashRate(EstimatedTotalAttempts(solution_nonce, thread_count), elapsed)]

\* The match on the result of the search: telemetry for a solution, then
\* the result is returned.
LibFinish(res) ==
    /\ result' = LibReturn(res, solve_config)
    /\ elapsed_millis' = now - call_time
    /\ telemetry' = IF res.tag = "Ok" /\ solve_config.thread_count > 0
                    THEN Telemetry(res.nonce, solve_config.thread_count,
                                   now - call_time)
                    ELSE telemetry
    /\ steps' = IF res.tag # "Ok"
                THEN Append(steps, "return")
                ELSE IF solve_config.thread_count > 0
                     THEN steps \o <<"solution", "telemetry", "return">>
                     ELSE Append(steps, "solution")
    /\ pc' = "returned"

\* The worker whose completion the next wait yields.
Selected == remaining_handles[SelectAll(remaining_handles)]

\* One iteration of the loop of solve_multithreaded, from the completion of
\* select_all to the next await or to the return of solve_challenge.
RaceWait ==
    /\ pc = "race"
    /\ ReadyIdx(remaining_handles) # {}
    /\ LET idx == SelectAll(remaining_handles)
           w == remaining_handles[idx]
           other_handles == SwapRemove(remaining_handles, idx)
       IN
       /\ waits' = waits + 1
       /\ IF outcome[w].tag = "Solution"
          THEN /\ solution_found' = FlagAfterSolution
               /\ accepted' = accepted \cup {w}
               /\ abort_requested' = abort_requested \cup AbortTargets(other_handles)
               /\ wstate' = AfterAbort(AbortTargets(other_handles))
               /\ remaining_handles' = <<>>
               /\ LibFinish(RaceResult(outcome[w]))
          ELSE /\ remaining_handles' = IF outcome[w].tag = "JoinError"
                                       THEN AfterJoinError(other_handles)
                                       ELSE AfterFailure(other_handles)
               /\ IF remaining_handles' = <<>>
                  THEN LibFinish(RaceResult(NoOutcome))
                  ELSE UNCHANGED <<result, pc, steps, elapsed_millis, telemetry>>
               /\ UNCHANGED <<solution_found, accepted, abort_requested, wstate>>
    /\ UNCHANGED <<entry, config, arg_use_multithreaded, available_cores,
                   solve_config, now, call_time, expiration_time,
                   verifier_accepts, wargs, outcome, first_solved, verify_calls,
                   progress_vars, solver_calls,
                   outcome_count, earlier_calls, validation, tracker_vars, display, edge_vars>>

\* ------------------------------------------------------ the single worker
\* solve_single_threaded: what the awaited handle yields becomes the result.
SingleResult(o) ==
    CASE o.tag = "Solution" -> Ok(o.nonce)
      [] o.tag = "Failure" -> Err("WorkerFailure")
      [] OTHER -> Err("TaskExecutionFailed")

\* solve_single_threaded's await completes; solve_challenge returns.
SingleJoin ==
    /\ pc = "single"
    /\ wstate[0] = "done"
    /\ waits' = waits + 1
    /\ remaining_handles' = <<>>
    /\ accepted' = IF outcome[0].tag = "Solution" THEN {0} ELSE accepted
    /\ LibFinish(SingleResult(outcome[0]))
    /\ UNCHANGED <<entry, config, arg_use_multithreaded, available_cores,
                   solve_config, now, call_time, expiration_time,
                   verifier_accepts, wstate, wargs, outcome, abort_requested,
                   solution_found, first_solved, verify_calls, progress_vars,
                   solver_calls,
                   outcome_count, earlier_calls, validation, tracker_vars, display, edge_vars>>

\* ------------------------------------- IronShieldClient::solve_challenge
\* The expiry check.
Expired(current_time, expiration) == current_time > expiration

\* IronShieldClient::solve_challenge up to its await: the expiry check, then
\* one blocking task that runs the library's solver unpartitioned.
ClientCall ==
    /\ pc = "idle"
    /\ \E nt \in Overrides :
         /\ entry' = "client"
         /\ config' = [num_threads |-> nt]
    /\ call_time' = now
    /\ IF Expired(now, expiration_time)
       THEN /\ result' = Err("ChallengeExpired")
            /\ pc' = "returned"
            /\ steps' = <<"expiry", "return">>
            /\ wstate' = [i \in Workers |-> "unspawned"]
            /\ wargs' = [i \in Workers |-> [offset |-> 0, stride |-> 0]]
            /\ remaining_handles' = <<>>
       ELSE /\ SpawnSingle
            /\ pc' = "client"
            /\ steps' = <<"expiry", "config", "spawn">>
            /\ result' = NoResult
    /\ FreshCall
    /\ UNCHANGED <<arg_use_multithreaded, available_cores, solve_config, now,
                   expiration_time, verifier_accepts, earlier_calls, validation,
                   tracker_vars, display, edge_vars>>

\* What the client makes of the awaited handle and of the verifier's answer.
ClientResult(o, is_valid) ==
    CASE o.tag = "JoinError" -> Err("TaskExecutionFailed")
      [] o.tag = "Failure" -> Err("WorkerFailure")
      [] OTHER -> IF is_valid THEN Ok(o.nonce) ELSE Err("VerificationFailed")

\* A verification failure that starts the call over.
ClientNextRetry(res) ==
    IF res = Err("VerificationFailed") THEN "idle" ELSE "returned"

\* return Err(..) and Ok(response): the call is over whatever the result.
ClientNext(res) == "returned"

\* The client's await completes: errors return at once, a solution is
\* verified and returned only if the verifier accepts it.
ClientJoin ==
    /\ pc = "client"
    /\ wstate[0] = "done"
    /\ waits' = waits + 1
    /\ remaining_handles' = <<>>
    /\ verify_calls' = IF outcome[0].tag = "Solution"
                       THEN Append(verify_calls, outcome[0].nonce)
                       ELSE verify_calls
    /\ result' = ClientResult(outcome[0], verifier_accepts)
    /\ accepted' = IF result'.tag = "Ok" THEN {0} ELSE accepted
    /\ elapsed_millis' = IF outcome[0].tag = "Solution"
                         THEN now - call_time ELSE elapsed_millis
    /\ steps' = IF outcome[0].tag = "Solution"
                THEN steps \o <<"solution", "telemetry", "verify", "return">>
                ELSE Append(steps, "return")
    /\ pc' = ClientNext(result')
    /\ UNCHANGED <<entry, config, arg_use_multithreaded, available_cores,
                   solve_config, now, call_time, expiration_time,
                   verifier_accepts, wstate, wargs, outcome, abort_requested,
                   solution_found, first_solved, progress_vars, solver_calls,
                   telemetry,
                   outcome_count, earlier_calls, validation, tracker_vars, display, edge_vars>>

Next ==
    \/ Tick
    \/ LibCall
    \/ ClientCall
    \/ \E i \in Workers : WorkerStart(i)
    \/ \E i \in Workers : WorkerFinish(i)
    \/ RaceWait
    \/ SingleJoin
    \/ ClientJoin

Spec == Init /\ [][Next]_vars

\* ------------------------------------- a multithreaded call, four threads
\* solve::solve_challenge is called with num_threads: Some(4) and
\* use_multithreaded = true.
ScenarioCall ==
    /\ SolveChallenge(Some(ScenarioThreads), TRUE)
    /\ UNCHANGED <<validation, display>>

NextScenario ==
    \/ Tick
    \/ ScenarioCall
    \/ \E i \in Workers : WorkerStart(i)
    \/ \E i \in Workers : WorkerFinish(i)
    \/ RaceWait

SpecScenario == Init /\ [][NextScenario]_vars

\* --------------------------------------------- a race that reports progress
\* The thread count of the race whose progress callbacks are followed.
ProgressThreads == 2

\* solve::solve_challenge is called with an override of two threads and
\* use_multithreaded = true.
ProgressCall ==
    /\ SolveChallenge(Some(ProgressThreads), TRUE)
    /\ UNCHANGED <<validation, display>>

NextProgress ==
    \/ ProgressCall
    \/ \E i \in Workers : WorkerStart(i)
    \/ \E i \in Workers, b \in 1 .. MaxBatch : ProgressCallbackEnter(i, b)
    \/ \E i \in Workers : ProgressCallbackReport(i)
    \/ \E i \in Workers : WorkerFinish(i)
    \/ RaceWait

SpecProgress == Init /\ [][NextProgress]_vars

\* ------------------------------------------------ the telemetry on its inputs
\* The thread counts, nonces and elapsed times the telemetry is applied to.
TelemetryThreads == 0 .. ScenarioThreads
TelemetryNonces == (0 .. MaxNonce) \cup {1000}
TelemetryElapsed == (0 .. MaxElapsed) \cup {1000}

InitTelemetry ==
    /\ entry = "lib"
    /\ pc = "tel_call"
    /\ config = [num_threads |-> None]
    /\ arg_use_multithreaded = TRUE
    /\ available_cores = MachineCores
    /\ solve_config \in {[thread_count |-> tc, use_multithreaded |-> TRUE] :
                            tc \in TelemetryThreads}
    /\ now \in TelemetryElapsed
    /\ call_time = 0
    /\ expiration_time = Deadline
    /\ verifier_accepts = TRUE
    /\ wstate = [i \in Workers |-> "unspawned"]
    /\ wargs = [i \in Workers |-> [offset |-> 0, stride |-> 0]]
    /\ outcome = [i \in Workers |-> NoOutcome]
    /\ remaining_handles = <<>>
    /\ abort_requested = {}
    /\ solution_found = FALSE
    /\ accepted = {}
    /\ first_solved = {}
    /\ waits = 0
    /\ verify_calls = <<>>
    /\ result \in {Ok(n) : n \in TelemetryNonces}
    /\ cumulative_attempts = [i \in Workers |-> 0]
    /\ callback = [i \in Workers |-> NoCallback]
    /\ reported = [i \in Workers |-> <<>>]
    /\ suppressed = [i \in Workers |-> 0]
    /\ solver_calls = [i \in Workers |-> 0]
    /\ steps = <<>>
    /\ elapsed_millis = 0
    /\ telemetry = NoTelemetry
    /\ outcome_count = [i \in Workers |-> 0]
    /\ earlier_calls = NoEarlierCalls
    /\ validation = NoValidation
    /\ last_logged = <<>>
    /\ logged_lines = [i \in Workers |-> <<>>]
    /\ display = NoDisplay
    /\ http = NoHttp
    /\ api_response = NoApiResponse
    /\ cli = NoCli
    /\ overflow_checks = FALSE

\* The search has returned Ok(solution) at time now: the match of
\* solve::solve_challenge runs.
TelemetryLog ==
    /\ pc = "tel_call"
    /\ LET solution == result IN LibFinish(solution)
    /\ UNCHANGED <<entry, config, arg_use_multithreaded, available_cores,
                   solve_config, now, call_time, expiration_time,
                   verifier_accepts, wstate, wargs, outcome, remaining_handles,
                   abort_requested, solution_found, accepted, first_solved,
                   waits, verify_calls, progress_vars, solver_calls,
                   outcome_count, earlier_calls, validation, tracker_vars, display, edge_vars>>

NextTelemetry == TelemetryLog

SpecTelemetry == InitTelemetry /\ [][NextTelemetry]_vars

\* ------------------------------------------------- one call after another
\* The caller has the result of its solve call and goes on: what the call
\* left behind is remembered, and solve can be called again. Workers of the
\* call that still run do so detached; the next call spawns its own.
CallerContinues ==
    /\ pc = "returned"
    /\ earlier_calls.count < MaxCalls - 1
    /\ pc' = "idle"
    /\ earlier_calls' =
           [count |-> earlier_calls.count + 1,
            solution_found |-> earlier_calls.solution_found \/ solution_found,
            attempts |-> \/ earlier_calls.attempts
                         \/ \E i \in Workers : cumulative_attempts[i] > 0]
    /\ UNCHANGED <<entry, config, arg_use_multithreaded, available_cores,
                   solve_config, now, call_time, expiration_time,
                   verifier_accepts, wstate, wargs, outcome, remaining_handles,
                   abort_requested, solution_found, accepted, first_solved,
                   waits, verify_calls, result, progress_vars, solver_calls,
                   steps, elapsed_millis, telemetry, outcome_count, validation,
                   tracker_vars, display, edge_vars>>

NextCalls ==
    \/ ProgressCall
    \/ \E i \in Workers : WorkerStart(i)
    \/ \E i \in Workers, b \in 1 .. MaxBatch : ProgressCallbackEnter(i, b)
    \/ \E i \in Workers : ProgressCallbackReport(i)
    \/ \E i \in Workers : WorkerFinish(i)
    \/ RaceWait
    \/ CallerContinues

SpecCalls == Init /\ [][NextCalls]_vars

\* ------------------------------------------------------ validate_challenge
\* The errors fetch_challenge and submit_solution can return.
FetchErrors == {"NetworkError", "ProcessingError"}
SubmitErrors == {"NetworkError", "VerificationError"}

\* Ok(token)
Token(n) == [tag |-> "Token", nonce |-> n, err |-> "none"]

\* validate_challenge is called: client.fetch_challenge(endpoint) is awaited.
ValidateCall ==
    /\ pc = "idle"
    /\ validation.stage = "none"
    /\ validation' = [validation EXCEPT !.stage = "fetch", !.calls = <<"fetch">>]
    /\ UNCHANGED <<entry, pc, config, arg_use_multithreaded, available_cores,
                   solve_config, now, call_time, expiration_time,
                   verifier_accepts, wstate, wargs, outcome, remaining_handles,
                   abort_requested, solution_found, accepted, first_solved,
                   waits, verify_calls, result, progress_vars, solver_calls,
                   steps, elapsed_millis, telemetry, outcome_count,
                   earlier_calls, tracker_vars, display, edge_vars>>

\* fetch_challenge returns Err(e): the ? returns it.
FetchFails(e) ==
    /\ validation.stage = "fetch"
    /\ validation' = [validation EXCEPT !.stage = "done", !.fetched = e,
                                        !.result = Err(e)]
    /\ UNCHANGED <<entry, pc, config, arg_use_multithreaded, available_cores,
                   solve_config, now, call_time, expiration_time,
                   verifier_accepts, wstate, wargs, outcome, remaining_handles,
                   abort_requested, solution_found, accepted, first_solved,
                   waits, verify_calls, result, progress_vars, solver_calls,
                   steps, elapsed_millis, telemetry, outcome_count,
                   earlier_calls, tracker_vars, display, edge_vars>>

\* fetch_challenge returns Ok(challenge): solve::solve_challenge is called
\* with the config and the use_multithread of validate_challenge.
FetchSucceeds ==
    /\ validation.stage = "fetch"
    /\ validation' = [validation EXCEPT !.stage = "solve", !.fetched = "ok",
                                        !.calls = Append(@, "solve")]
    /\ \E nt \in Overrides, mt \in BOOLEAN : SolveChallenge(nt, mt)
    /\ UNCHANGED display

\* A submit that does not look at the result of the solve.
SubmitsAlways(res) == TRUE

\* let solution = solve::solve_challenge(..).await?;
SubmitsAfter(res) == res.tag = "Ok"

\* solve::solve_challenge has returned: an error is returned by the ?, a
\* solution is handed to client.submit_solution.
SolveReturns ==
    /\ validation.stage = "solve"
    /\ pc = "returned"
    /\ validation' =
           IF SubmitsAfter(result)
           THEN [validation EXCEPT !.stage = "submit",
                                   !.calls = Append(@, "submit")]
           ELSE [validation EXCEPT !.stage = "done", !.result = result]
    /\ UNCHANGED <<entry, pc, config, arg_use_multithreaded, available_cores,
                   solve_config, now, call_time, expiration_time,
                   verifier_accepts, wstate, wargs, outcome, remaining_handles,
                   abort_requested, solution_found, accepted, first_solved,
                   waits, verify_calls, result, progress_vars, solver_calls,
                   steps, elapsed_millis, telemetry, outcome_count,
                   earlier_calls, tracker_vars, display, edge_vars>>

\* submit_solution returns: Err(e) is returned by the ?, Ok(token) as Ok(token).
SubmitReturns(r) ==
    /\ validation.stage = "submit"
    /\ validation' =
           [validation EXCEPT !.stage = "done", !.submitted = r,
                              !.result = IF r = "ok" THEN Token(result.nonce)
                                                     ELSE Err(r)]
    /\ UNCHANGED <<entry, pc, config, arg_use_multithreaded, available_cores,
                   solve_config, now, call_time, expiration_time,
                   verifier_accepts, wstate, wargs, outcome, remaining_handles,
                   abort_requested, solution_found, accepted, first_solved,
                   waits, verify_calls, result, progress_vars, solver_calls,
                   steps, elapsed_millis, telemetry, outcome_count,
                   earlier_calls, tracker_vars, display, edge_vars>>

NextValidate ==
    \/ ValidateCall
    \/ \E e \in FetchErrors : FetchFails(e)
    \/ FetchSucceeds
    \/ \E i \in Workers : WorkerStart(i)
    \/ \E i \in Workers : WorkerFinish(i)
    \/ RaceWait
    \/ SingleJoin
    \/ SolveReturns
    \/ \E r \in SubmitErrors \cup {"ok"} : SubmitReturns(r)

SpecValidate == Init /\ [][NextValidate]_vars

\* ------------------------------------------ the verbose progress tracker
\* if total_attempts - last_logged_attempts >= 500_000
LogThreshold == 500000

\* The batch size of the solver's progress callback.
CoreBatch == 200000

\* The threads that report to the tracker, and the sizes of their batches.
TrackerThreads == 0 .. (ProgressThreads - 1)
TrackerBatches == {(k * CoreBatch) \div 2 : k \in 1 .. MaxTrackerBatch}

\* last_logged_map.get(&thread_id).copied().unwrap_or(0)
LastLoggedAttempts(map, thread_id) ==
    IF thread_id \in DOMAIN map THEN map[thread_id] ELSE 0

\* last_logged_map.insert(thread_id, total_attempts)
Insert(map, thread_id, total_attempts) ==
    [t \in DOMAIN map \cup {thread_id} |->
        IF t = thread_id THEN total_attempts ELSE map[t]]

\* A throttle on the total alone, whatever was logged last.
ShouldLogAbsolute(total_attempts, last_logged_attempts) ==
    total_attempts >= LogThreshold

\* Only log every 500,000 attempts.
ShouldLog(total_attempts, last_logged_attempts) ==
    total_attempts - last_logged_attempts >= LogThreshold

\* VerboseProgressTracker::on_progress(thread_id, total_attempts, ..), the
\* whole of it under the mutex (the hash rate it prints is left out).
OnProgress(thread_id, total_attempts) ==
    LET last_logged_attempts == LastLoggedAttempts(last_logged, thread_id) IN
    IF ShouldLog(total_attempts, last_logged_attempts)
    THEN /\ logged_lines' =
                [logged_lines EXCEPT ![thread_id] =
                    Append(@, [total_attempts |-> total_attempts,
                               estimated_total_attempts |->
                                   total_attempts * Cardinality(TrackerThreads)])]
         /\ last_logged' = Insert(last_logged, thread_id, total_attempts)
    ELSE UNCHANGED <<logged_lines, last_logged>>

\* Thread thread_id has made batch_attempts more attempts and reports its
\* new total to the tracker.
TrackerProgress(thread_id, batch_attempts) ==
    /\ cumulative_attempts[thread_id] + batch_attempts
           <= (MaxTrackerTotal * CoreBatch) \div 2
    /\ cumulative_attempts' =
           [cumulative_attempts EXCEPT ![thread_id] = @ + batch_attempts]
    /\ OnProgress(thread_id, cumulative_attempts'[thread_id])
    /\ UNCHANGED <<entry, pc, config, arg_use_multithreaded, available_cores,
                   solve_config, now, call_time, expiration_time,
                   verifier_accepts, wstate, wargs, outcome, remaining_handles,
                   abort_requested, solution_found, accepted, first_solved,
                   waits, verify_calls, result, callback, reported, suppressed,
                   solver_calls, steps, elapsed_millis, telemetry,
                   outcome_count, earlier_calls, validation, display,
                   edge_vars>>

NextTracker ==
    \E thread_id \in TrackerThreads, b \in TrackerBatches :
        TrackerProgress(thread_id, b)

SpecTracker == Init /\ [][NextTracker]_vars

\* ------------------------------------------- SolveConfig::new on its inputs
\* The values config.num_threads is given under SpecConfig.
ConfigOverrides == {None} \cup {Some(k) : k \in 0 .. MaxOverride}

InitConfig ==
    /\ entry = "none"
    /\ pc = "cfg_call"
    /\ config \in {[num_threads |-> nt] : nt \in ConfigOverrides}
    /\ arg_use_multithreaded \in BOOLEAN
    /\ available_cores \in 1 .. MaxCores
    /\ solve_config = NoSolveConfig
    /\ now = 0
    /\ call_time = 0
    /\ expiration_time = Deadline
    /\ verifier_accepts = TRUE
    /\ wstate = [i \in Workers |-> "unspawned"]
    /\ wargs = [i \in Workers |-> [offset |-> 0, stride |-> 0]]
    /\ outcome = [i \in Workers |-> NoOutcome]
    /\ remaining_handles = <<>>
    /\ abort_requested = {}
    /\ solution_found = FALSE
    /\ accepted = {}
    /\ first_solved = {}
    /\ waits = 0
    /\ verify_calls = <<>>
    /\ result = NoResult
    /\ cumulative_attempts = [i \in Workers |-> 0]
    /\ callback = [i \in Workers |-> NoCallback]
    /\ reported = [i \in Workers |-> <<>>]
    /\ suppressed = [i \in Workers |-> 0]
    /\ solver_calls = [i \in Workers |-> 0]
    /\ steps = <<>>
    /\ elapsed_millis = 0
    /\ telemetry = NoTelemetry
    /\ outcome_count = [i \in Workers |-> 0]
    /\ earlier_calls = NoEarlierCalls
    /\ validation = NoValidation
    /\ last_logged = <<>>
    /\ logged_lines = [i \in Workers |-> <<>>]
    /\ display = NoDisplay
    /\ http = NoHttp
    /\ api_response = NoApiResponse
    /\ cli = NoCli
    /\ overflow_checks = FALSE

\* SolveConfig::new(&config, use_multithreaded) is called.
ConfigNew ==
    /\ pc = "cfg_call"
    /\ solve_config' = SolveConfigNew(config, arg_use_multithreaded, available_cores)
    /\ pc' = "cfg_done"
    /\ UNCHANGED <<entry, config, arg_use_multithreaded, available_cores, now,
                   call_time, expiration_time, verifier_accepts, wstate, wargs,
                   outcome, remaining_handles, abort_requested, solution_found,
                   accepted, first_solved, waits, verify_calls, result,
                   progress_vars, solver_calls, steps, elapsed_millis,
                   telemetry,
                   outcome_count, earlier_calls, validation, tracker_vars, display, edge_vars>>

NextConfig == ConfigNew

SpecConfig == InitConfig /\ [][NextConfig]_vars

\* ==================================================================== claims
\* The call went through the race coordinator.
InRace == entry = "lib" /\ UsesRace(solve_config)

\* The workers the race spawned.
RaceWorkers == {i \in Workers : i < solve_config.thread_count}

FailTags == {"Failure", "JoinError"}

\* C1: when a wait of the race coordinator yields a Solution, the same step
\* sets the found-flag, calls abort on every handle still remaining, and
\* returns that solution; once the call has returned no further wait happens.
C1_SolutionEndsRace ==
    [][ /\ (pc = "race" /\ waits' # waits /\ outcome[Selected].tag = "Solution")
           => /\ solution_found'
              /\ abort_requested' = Range(remaining_handles) \ {Selected}
              /\ result' = Ok(outcome[Selected].nonce)
              /\ pc' = "returned"
        /\ (pc = "returned" => waits' = waits /\ pc' = "returned")
      ]_vars

\* A race won while another worker, now asked to abort, is still running.
C1_Witness ==
    /\ InRace /\ pc = "returned" /\ result.tag = "Ok" /\ solution_found
    /\ \E i \in abort_requested : wstate[i] = "running"

\* C2: a wait that yields a Failure while other handles remain removes that
\* handle only: no handle is aborted, no worker is affected, the race goes on
\* and nothing is returned yet.
C2_FailureKeepsRace ==
    [][ (/\ pc = "race" /\ waits' # waits
         /\ outcome[Selected].tag = "Failure"
         /\ Len(remaining_handles) > 1)
        => /\ Range(remaining_handles') = Range(remaining_handles) \ {Selected}
           /\ Len(remaining_handles') = Len(remaining_handles) - 1
           /\ abort_requested' = {}
           /\ wstate' = wstate
           /\ ~solution_found'
           /\ pc' = "race"
           /\ result' = NoResult
      ]_vars

\* A race that returned the solution of a worker after the coordinator had
\* discarded the handle of a failed one.
C2_Witness ==
    /\ InRace /\ pc = "returned" /\ result.tag = "Ok" /\ waits >= 2
    /\ \E i \in RaceWorkers : outcome[i].tag = "Failure" /\ i \notin abort_requested

\* Every worker of the race has completed, none with a Solution.
AllFailed ==
    \A i \in RaceWorkers : wstate[i] = "done" /\ outcome[i].tag \in FailTags

\* C3: a race that has returned returned NoSolutionFound exactly when every
\* worker completed without a Solution, and then it waited once per worker:
\* it returned only after the last handle had completed.
C3_AllFailedNoSolution ==
    (InRace /\ pc = "returned")
        => /\ (result = Err("NoSolutionFound")) <=> AllFailed
           /\ result.tag = "Err" => (result.err = "NoSolutionFound"
                                      /\ waits = solve_config.thread_count
                                      /\ accepted = {})

\* A race of at least two workers that all failed, one of them by a join error.
C3_Witness ==
    /\ InRace /\ pc = "returned" /\ AllFailed
    /\ \E i \in RaceWorkers : outcome[i].tag = "JoinError"
    /\ \E i \in RaceWorkers : outcome[i].tag = "Failure"

\* The workers of the race that have completed with a Solution.
Solved == {i \in RaceWorkers : wstate[i] = "done" /\ outcome[i].tag = "Solution"}

C5_FlagOnce ==
    [][ /\ Cardinality(accepted') <= 1
        /\ (accepted # {} => accepted' = accepted)
        /\ (solution_found => solution_found')
        /\ (solution_found' # solution_found => (pc = "race" /\ accepted' # accepted))
        /\ (InRace' => (solution_found' <=> accepted' # {}))
        /\ (entry = "none" => ~solution_found)
      ]_vars

\* The flag is set and a second worker has completed with a Solution that was
\* not accepted.
C5_Witness ==
    /\ solution_found
    /\ \E i \in Solved : i \notin accepted

\* C6 as stated: whichever entry point is called, a call made after
\* expiration_time fails with ChallengeExpired without spawning a worker, and
\* a call made at or before expiration_time is not rejected as expired.
C6_ExpiryGuard ==
    entry # "none" =>
        /\ call_time > expiration_time
              => /\ result = Err("ChallengeExpired")
                 /\ \A i \in Workers : wstate[i] = "unspawned"
        /\ call_time <= expiration_time => result # Err("ChallengeExpired")

\* The awaited handle yielded a solution.
SolutionProduced == accepted # {} \/ verify_calls # <<>>

\* C7 as stated: whichever entry point is called, a solution the verifier
\* rejects makes the call return VerificationFailed, and a call returns Ok
\* only with a solution the verifier accepts.
C7_VerificationGate ==
    pc = "returned" =>
        /\ (SolutionProduced /\ ~verifier_accepts)
              => result = Err("VerificationFailed")
        /\ result.tag = "Ok" => verifier_accepts

\* C8 as stated (under SpecScenario, whose calls all are multithreaded with
\* override 4): multithreaded with override 4 and an unexpired challenge,
\* worker 2 completed with nonce 402 and no other worker completed; the call,
\* once returned, returned that solution after one wait, the verifier was
\* called once, with that solution, and the other three handles were aborted.
C8_Scenario ==
    (/\ entry = "lib" /\ arg_use_multithreaded /\ config.num_threads = Some(4)
     /\ call_time <= expiration_time
     /\ wstate[2] = "done" /\ outcome[2] = Solution(402)
     /\ \A i \in {0, 1, 3} : wstate[i] # "done"
     /\ pc = "returned")
        => /\ result = Ok(402)
           /\ waits = 1
           /\ verify_calls = <<402>>
           /\ abort_requested = {0, 1, 3}

\* C9: SolveConfig::new with use_multithreaded = false returns thread_count 1
\* and use_multithreaded = false, whatever the override and the core count.
C9_SingleThreadedCount ==
    (pc = "cfg_done" /\ ~arg_use_multithreaded)
        => (solve_config.thread_count = 1 /\ ~solve_config.use_multithreaded)

\* SolveConfig::new was given use_multithreaded = false and an override above 1.
C9_Witness ==
    /\ pc = "cfg_done" /\ ~arg_use_multithreaded
    /\ config.num_threads.tag = "Some" /\ config.num_threads.v > 1

\* C10: SolveConfig::new with use_multithreaded = true and an override k >= 1
\* returns thread_count = k and use_multithreaded = true, whatever the core
\* count.
C10_OverrideExact ==
    (/\ pc = "cfg_done" /\ arg_use_multithreaded
     /\ config.num_threads.tag = "Some" /\ config.num_threads.v >= 1)
        => /\ solve_config.thread_count = config.num_threads.v
           /\ solve_config.use_multithreaded

\* SolveConfig::new was given use_multithreaded = true and an override larger
\* than the number of cores.
C10_Witness ==
    /\ pc = "cfg_done" /\ arg_use_multithreaded
    /\ config.num_threads.tag = "Some"
    /\ config.num_threads.v > available_cores

\* C11: SolveConfig::new with use_multithreaded = true and no override
\* returns the largest t with 5 * t <= 4 * cores, or 1 when that is 0 (1 core
\* gives 1, 2 give 1, 5 give 4, 10 give 8), and never more than the cores.
C11_AutoThreadCount ==
    (pc = "cfg_done" /\ arg_use_multithreaded /\ config.num_threads.tag = "None")
        => LET t == solve_config.thread_count
               c == available_cores
           IN /\ solve_config.use_multithreaded
              /\ t >= 1 /\ t <= c
              /\ (c = 1 => t = 1) /\ (c = 2 => t = 1)
              /\ (c = 5 => t = 4) /\ (c = 10 => t = 8)
              /\ (c >= 2 => (5 * t <= 4 * c /\ 4 * c < 5 * (t + 1)))

\* SolveConfig::new was given no override, use_multithreaded = true and ten
\* cores.
C11_Witness ==
    /\ pc = "cfg_done" /\ arg_use_multithreaded
    /\ config.num_threads.tag = "None" /\ available_cores = 10

\* C12 as stated: SolveConfig::new returns thread_count >= 1 for every input.
C12_CountAtLeastOne ==
    pc = "cfg_done" => solve_config.thread_count >= 1

\* The workers the call has spawned.
Spawned == {i \in Workers : wstate[i] # "unspawned"}

\* The nonces below M a solver given offset and stride visits:
\* offset, offset + stride, offset + 2 * stride, ...
Progression(offset, stride, M) ==
    {n \in 0 .. (M - 1) : n >= offset /\ (n - offset) % stride = 0}

\* The workers of the call have been spawned and none has started.
JustSpawned ==
    /\ entry = "lib" /\ Spawned # {}
    /\ \A i \in Spawned : wstate[i] = "queued"

\* C13: when the workers have been spawned, whatever the bound M, every nonce
\* below M lies in the progression of exactly one of them: the progressions
\* neither overlap nor leave a gap.
C13_PartitionExhaustive ==
    JustSpawned
        => \A M \in 0 .. MaxNonce : \A n \in 0 .. (M - 1) :
               Cardinality({i \in Spawned :
                   n \in Progression(wargs[i].offset, wargs[i].stride, M)}) = 1

\* A race of three workers has been spawned.
C13_Witness ==
    JustSpawned /\ InRace /\ solve_config.thread_count = 3 /\ Spawned = {0, 1, 2}

\* C14: the race spawns exactly thread_count workers, the workers
\* 0..thread_count-1; worker i is given offset i and stride thread_count, so
\* no two workers share an offset and all share the stride.
C14_RaceAssignment ==
    InRace
        => /\ Cardinality(Spawned) = solve_config.thread_count
           /\ Spawned = 0 .. (solve_config.thread_count - 1)
           /\ \A i \in Spawned :
                  /\ wargs[i].offset = i
                  /\ wargs[i].stride = solve_config.thread_count
           /\ \A i, j \in Spawned : wargs[i].offset = wargs[j].offset => i = j
           /\ \A i, j \in Spawned : wargs[i].stride = wargs[j].stride

\* A race of three or more workers that have all gone into their solver.
C14_Witness ==
    /\ InRace /\ solve_config.thread_count >= 3
    /\ \A i \in RaceWorkers : solver_calls[i] = 1

InvocationBegins(i) ==
    /\ callback[i] = NoCallback
    /\ callback'[i] # NoCallback \/ suppressed'[i] # suppressed[i]

\* C16: the step that begins a callback invocation only reads the flag; when
\* the flag is set the invocation is over with that step, with no report and
\* the counter unchanged; and a counter is added to or a report logged only by
\* an invocation that read the flag as not set.
C16_SuppressedWhenFlagSet ==
    [][ \A i \in Workers :
          /\ InvocationBegins(i)
                => /\ reported' = reported
                   /\ cumulative_attempts' = cumulative_attempts
          /\ (InvocationBegins(i) /\ solution_found)
                => /\ callback'[i] = NoCallback
                   /\ suppressed'[i] = suppressed[i] + 1
          /\ (reported'[i] # reported[i]
              \/ cumulative_attempts'[i] # cumulative_attempts[i])
                => callback[i].tag = "passed" /\ ~callback[i].seen
      ]_vars

\* A callback invocation has returned at the flag.
C16_Witness ==
    solution_found /\ \E i \in Workers : suppressed[i] > 0

\* The sum of the batch sizes of the first k reports of a worker.
RECURSIVE BatchSum(_, _)
BatchSum(reports, k) ==
    IF k = 0 THEN 0 ELSE reports[k].batch_attempts + BatchSum(reports, k - 1)

\* C17: a worker's counter is 0 before its first report and is the sum of the
\* batch sizes of its own reports; each report carries the sum of the batch
\* sizes up to and including its own, so the figures of a worker never
\* decrease.
C17_CumulativeCounter ==
    \A i \in Workers :
        /\ cumulative_attempts[i] = BatchSum(reported[i], Len(reported[i]))
        /\ reported[i] = <<>> => cumulative_attempts[i] = 0
        /\ \A k \in 1 .. Len(reported[i]) :
               /\ reported[i][k].total_attempts = BatchSum(reported[i], k)
               /\ k > 1 => reported[i][k].total_attempts
                               >= reported[i][k - 1].total_attempts

\* One worker has made two reports with different batch sizes and another
\* worker one report.
C17_Witness ==
    \E i, j \in Workers :
        /\ i # j
        /\ Len(reported[i]) = 2 /\ Len(reported[j]) = 1
        /\ reported[i][1].batch_attempts # reported[i][2].batch_attempts

\* Step a comes before step b in the call.
Before(a, b) ==
    \E j, k \in 1 .. Len(steps) : j < k /\ steps[j] = a /\ steps[k] = b

\* C18 as stated: a call that returns a solution went through the expiry
\* check, the thread-count decision, the spawn, the winning solution, its
\* verification, the telemetry and the return, in this order.
C18_StepOrder ==
    (pc = "returned" /\ result.tag = "Ok")
        => /\ Before("expiry", "config")
           /\ Before("config", "spawn")
           /\ Before("spawn", "solution")
           /\ Before("solution", "verify")
           /\ Before("verify", "telemetry")
           /\ Before("telemetry", "return")

\* C19: no solver is invoked twice; the step that sets the result ends the
\* call, an error is returned by a step that spawns nothing, and once the call
\* has returned no worker is spawned, no solver invoked and the result stays.
C19_NoRetry ==
    [][ /\ \A i \in Workers : solver_calls'[i] <= 1
        /\ result' # result => pc' = "returned"
        /\ (result' # result /\ result'.tag = "Err")
              => /\ wstate' = wstate
                 /\ solver_calls' = solver_calls
        /\ pc = "returned"
              => /\ pc' = "returned"
                 /\ result' = result
                 /\ steps' = steps
                 /\ solver_calls' = solver_calls
                 /\ \A i \in Workers : wstate[i] # "running" => wstate'[i] = wstate[i]
      ]_vars

\* A call returned a verification failure after one search.
C19_Witness ==
    /\ pc = "returned" /\ result = Err("VerificationFailed")
    /\ solver_calls[0] = 1

\* C20: a wait that yields a join error does what one that yields a Failure
\* does: that handle alone is removed, no handle is aborted, no worker is
\* affected and the flag stays; the race goes on while handles remain and
\* returns NoSolutionFound when that was the last one.
C20_JoinErrorKeepsRace ==
    [][ (/\ pc = "race" /\ waits' # waits
         /\ outcome[Selected].tag = "JoinError")
        => /\ Range(remaining_handles') = Range(remaining_handles) \ {Selected}
           /\ Len(remaining_handles') = Len(remaining_handles) - 1
           /\ abort_requested' = {}
           /\ wstate' = wstate
           /\ ~solution_found'
           /\ accepted' = {}
           /\ IF Len(remaining_handles) > 1
              THEN pc' = "race" /\ result' = NoResult
              ELSE pc' = "returned" /\ result' = Err("NoSolutionFound")
      ]_vars

\* A race that returned the solution of a worker after a wait had yielded the
\* join error of another one.
C20_Witness ==
    /\ InRace /\ pc = "returned" /\ result.tag = "Ok" /\ waits = 2
    /\ \E i \in RaceWorkers : outcome[i].tag = "JoinError"
    /\ \A i \in RaceWorkers \ accepted : outcome[i].tag \in {"JoinError", "None"}


\* C21: with use_multithreaded = false solve_challenge spawns worker 0 alone,
\* with offset 0 and stride 1, and never runs the race: nothing is aborted and
\* the flag is never set. The race runs, and more than one worker exists,
\* only with use_multithreaded = true and thread_count >= 2; a multithreaded
\* configuration of one thread takes the single-worker path too.
C21_SingleWorkerPath ==
    entry = "lib"
        => /\ (~arg_use_multithreaded \/ solve_config.thread_count = 1)
                 => /\ Spawned = {0}
                    /\ wargs[0] = [offset |-> 0, stride |-> 1]
                    /\ pc # "race"
                    /\ waits <= 1
                    /\ abort_requested = {}
                    /\ ~solution_found
           /\ (pc = "race" \/ Cardinality(Spawned) >= 2)
                 => /\ arg_use_multithreaded
                    /\ solve_config.thread_count >= 2

\* A call with use_multithreaded = true and an override of one thread has
\* returned the solution of its single worker.
C21_Witness ==
    /\ entry = "lib" /\ arg_use_multithreaded
    /\ config.num_threads = Some(1) /\ solve_config.thread_count = 1
    /\ pc = "returned" /\ result.tag = "Ok" /\ waits = 1


\* C22: the step that accepts a solution leaves every running worker running,
\* and once the race has returned that solution no later step, the completion
\* of a loser included, changes the result, the flag or the accepted
\* solution.
C22_LateOutcomeIgnored ==
    [][ /\ (pc = "race" /\ pc' = "returned" /\ result'.tag = "Ok")
              => \A i \in Workers : wstate[i] = "running" => wstate'[i] = "running"
        /\ (InRace /\ pc = "returned" /\ result.tag = "Ok")
              => /\ result' = result
                 /\ solution_found' = solution_found
                 /\ accepted' = accepted
                 /\ pc' = "returned"
      ]_vars

\* The first wait accepted the solution of worker w; worker i, ahead of w in
\* the vector and therefore not complete at that wait, was aborted and has
\* since run to its own Solution.
C22_Witness ==
    /\ InRace /\ pc = "returned" /\ result.tag = "Ok" /\ waits = 1
    /\ \E w \in accepted, i \in abort_requested :
          /\ i < w
          /\ wstate[i] = "done" /\ outcome[i].tag = "Solution"
          /\ result.nonce = outcome[w].nonce


\* The positions of the expiry check among the steps of the call.
ExpiryChecks == {k \in 1 .. Len(steps) : steps[k] = "expiry"}

\* C23 as stated: a call that has spawned its workers made the expiry check
\* once, as its first step, and such a call never returns ChallengeExpired,
\* however late its solution comes.
C23_CheckedOnceBeforeStart ==
    Spawned # {}
        => /\ ExpiryChecks = {1}
           /\ result # Err("ChallengeExpired")
           /\ (pc = "returned" /\ accepted # {}) => result.tag = "Ok"


\* C24 as stated: once no worker is left to run, every spawned worker has
\* produced exactly one outcome, a Solution or a Failure.
C24_ExactlyOneOutcome ==
    (pc = "returned" /\ \A i \in Workers : wstate[i] \notin {"queued", "running"})
        => \A i \in Spawned :
               outcome_count[i] = 1 /\ outcome[i].tag \in {"Solution", "Failure"}

\* C24: a worker produces at most one outcome, and has produced one exactly
\* when its closure has ended, with a Solution, a Failure or a join error; a
\* worker aborted before it started is cancelled, never goes into its solver
\* and produces no outcome; a worker that has ended keeps its outcome.
C24_AtMostOneOutcome ==
    [][ \A i \in Workers :
          /\ outcome_count'[i] <= 1
          /\ outcome_count'[i] = 1 <=> wstate'[i] = "done"
          /\ wstate'[i] = "done"
                => outcome'[i].tag \in {"Solution", "Failure", "JoinError"}
          /\ wstate'[i] = "cancelled"
                => /\ outcome_count'[i] = 0
                   /\ solver_calls'[i] = 0
                   /\ outcome'[i] = NoOutcome
          /\ i \in abort_requested' => wstate'[i] # "queued"
          /\ wstate[i] = "cancelled" => wstate'[i] = "cancelled"
          /\ wstate[i] = "done" => (wstate'[i] = "done" /\ outcome'[i] = outcome[i])
      ]_vars

\* A race has returned: one worker was cancelled before it started, another
\* one was aborted while running and has since ended.
C24_Witness ==
    /\ InRace /\ pc = "returned"
    /\ \E i, j \in abort_requested :
          /\ wstate[i] = "cancelled" /\ outcome_count[i] = 0
          /\ wstate[j] = "done" /\ outcome_count[j] = 1 /\ solver_calls[j] = 1


\* The total of the last line the tracker printed for a thread, 0 if none.
LastLine(lines) == IF lines = <<>> THEN 0 ELSE lines[Len(lines)].total_attempts

\* C25: a report of thread i is printed exactly when its total is at least
\* 500,000 above the total of the last line printed for i (0 if none); the
\* record of i is the total of its last printed line, so it changes only when
\* a line is printed; the lines and the record of every other thread stay as
\* they are; consecutive lines of a thread are at least 500,000 apart.
C25_TrackerThrottle ==
    [][ \A i \in Workers :
          cumulative_attempts'[i] # cumulative_attempts[i]
              => LET total == cumulative_attempts'[i]
                     last == LastLine(logged_lines[i])
                 IN /\ total - last >= 500000
                          => /\ Len(logged_lines'[i]) = Len(logged_lines[i]) + 1
                             /\ LastLine(logged_lines'[i]) = total
                    /\ total - last < 500000
                          => /\ logged_lines'[i] = logged_lines[i]
                             /\ last_logged' = last_logged
                    /\ LastLoggedAttempts(last_logged', i) = LastLine(logged_lines'[i])
                    /\ \A j \in Workers \ {i} :
                          /\ logged_lines'[j] = logged_lines[j]
                          /\ LastLoggedAttempts(last_logged', j)
                                 = LastLoggedAttempts(last_logged, j)
                    /\ \A k \in 2 .. Len(logged_lines'[i]) :
                          logged_lines'[i][k].total_attempts
                              - logged_lines'[i][k - 1].total_attempts >= 500000
      ]_vars

\* Two lines were printed for one thread, its total has grown since without a
\* line, and one line was printed for another thread.
C25_Witness ==
    \E i, j \in TrackerThreads :
        /\ i # j
        /\ Len(logged_lines[i]) = 2 /\ Len(logged_lines[j]) = 1
        /\ cumulative_attempts[i] > LastLine(logged_lines[i])


\* C26: the step that makes a solve call leaves a flag that is false, every
\* counter at 0 with no report made, every worker either just spawned or not
\* spawned, the handles of exactly the spawned workers, and nothing aborted,
\* accepted, produced or returned, whatever the calls before left behind.
C26_FreshRaceState ==
    [][ (pc = "idle" /\ pc' # "idle")
          => /\ ~solution_found'
             /\ \A i \in Workers :
                   /\ cumulative_attempts'[i] = 0
                   /\ reported'[i] = <<>>
                   /\ outcome'[i] = NoOutcome
                   /\ wstate'[i] \in {"queued", "unspawned"}
             /\ Range(remaining_handles') = {i \in Workers : wstate'[i] = "queued"}
             /\ Len(remaining_handles') = Cardinality(Range(remaining_handles'))
             /\ abort_requested' = {}
             /\ accepted' = {}
             /\ result' = NoResult
      ]_vars

\* A second call is racing with its flag false and its counters at 0 after
\* a first call that had found a solution and whose workers had reported
\* progress.
C26_Witness ==
    /\ earlier_calls.count = 1
    /\ earlier_calls.solution_found /\ earlier_calls.attempts
    /\ pc = "race" /\ ~solution_found
    /\ \A i \in Workers : cumulative_attempts[i] = 0


\* C27: validate_challenge calls fetch, solve and submit in this order, each
\* at most once; solve is called only after fetch succeeded and submit only
\* after solve returned Ok; what it returns is the error of the first step
\* that failed, as that step returned it, and a token only when fetch, solve
\* and submit all succeeded.
C27_ValidateOrder ==
    LET v == validation IN
    /\ v.calls \in {<<>>, <<"fetch">>, <<"fetch", "solve">>,
                    <<"fetch", "solve", "submit">>}
    /\ Len(v.calls) >= 2 => v.fetched = "ok"
    /\ Len(v.calls) < 2 => entry = "none"
    /\ Len(v.calls) = 3 => (pc = "returned" /\ result.tag = "Ok")
    /\ v.stage = "done"
          => v.result = IF v.fetched # "ok" THEN Err(v.fetched)
                        ELSE IF result.tag # "Ok" THEN result
                        ELSE IF v.submitted # "ok" THEN Err(v.submitted)
                        ELSE Token(result.nonce)
    /\ v.result.tag = "Token"
          => /\ v.fetched = "ok" /\ result.tag = "Ok" /\ v.submitted = "ok"
             /\ Len(v.calls) = 3
    /\ v.stage # "done" => v.result.tag = "None"

\* validate_challenge has returned the error of a solve that failed after a
\* fetch that succeeded.
C27_Witness ==
    /\ validation.stage = "done"
    /\ validation.calls = <<"fetch", "solve">>
    /\ validation.result = Err("NoSolutionFound")


\* C29: a wait of the race that yields a Failure or a join error removes
\* exactly the completed handle from the remaining handles and changes
\* nothing else of the race: the flag stays false, no solution is recorded,
\* no other handle is aborted or removed, no worker's state or outcome
\* changes, and unless it was the last handle the call does not return. No
\* step of the race puts a handle back, so no handle is waited on twice.
C29_FailedCompletionFrame ==
    [][ /\ (/\ pc = "race" /\ waits' # waits
            /\ outcome[Selected].tag \in FailTags)
           => /\ Range(remaining_handles') = Range(remaining_handles) \ {Selected}
              /\ Len(remaining_handles') = Len(remaining_handles) - 1
              /\ waits' = waits + 1
              /\ ~solution_found /\ ~solution_found'
              /\ accepted = {} /\ accepted' = {}
              /\ UNCHANGED <<abort_requested, wstate, wargs, outcome,
                             outcome_count, first_solved, verify_calls,
                             solver_calls, progress_vars, solve_config>>
              /\ Len(remaining_handles) > 1
                    => UNCHANGED <<pc, result, steps, elapsed_millis, telemetry>>
        /\ pc = "race"
           => /\ Range(remaining_handles') \subseteq Range(remaining_handles)
              /\ Cardinality(Range(remaining_handles')) = Len(remaining_handles')
      ]_vars

\* The race goes on after a failed completion was handled: its handle is no
\* longer among the remaining ones and the flag is still false.
C29_Witness ==
    /\ InRace /\ pc = "race" /\ waits >= 1
    /\ ~solution_found
    /\ Len(remaining_handles) = solve_config.thread_count - waits
    /\ \E i \in RaceWorkers \ Range(remaining_handles) :
           outcome[i].tag \in FailTags


\* C30: under every interleaving of the coordinator and the progress
\* callbacks, no worker emits a progress report once the coordinator has set
\* the found-flag.
C30_NoReportAfterFlag ==
    [][ \A i \in Workers : reported'[i] # reported[i] => ~solution_found ]_vars


\* The coordinator is a task of the runtime: the completion of a handle it
\* waits on wakes it, and a task that stays woken is polled.
SpecFair == Spec /\ WF_vars(RaceWait)

\* A wait of the race can complete: a worker among the remaining handles has
\* completed with a Solution, or every worker of the race has completed.
RaceCanEnd ==
    /\ InRace /\ pc = "race"
    /\ \/ \E i \in Range(remaining_handles) :
             wstate[i] = "done" /\ outcome[i].tag = "Solution"
       \/ \A i \in RaceWorkers : wstate[i] = "done"

\* C28: the loop of the race terminates. Each wait removes exactly one
\* handle, so there are at most thread_count waits; once a worker has
\* completed with a Solution, or all workers have completed, the coordinator
\* eventually returns; and it returns Ok exactly when a completion it
\* observed was a Solution.
C28_RaceTerminates ==
    /\ [](InRace
            => /\ waits <= solve_config.thread_count
               /\ pc = "race"
                     => Len(remaining_handles) = solve_config.thread_count - waits
               /\ pc = "returned" => (result.tag = "Ok" <=> accepted # {}))
    /\ (RaceCanEnd ~> (InRace /\ pc = "returned"))

\* A race that returned an error after it had waited for every worker.
C28_Witness ==
    /\ InRace /\ pc = "returned"
    /\ waits = solve_config.thread_count
    /\ result.tag = "Err"


\* C31: the telemetry never divides by zero: in every call of
\* solve::solve_challenge that reaches the Ok arm of its match, the call made
\* with use_multithreaded = true and an override of 0 included, the
\* thread_count it divides by is at least 1 and the call does not panic.
C31_DivisorAtLeastOne ==
    (entry = "lib" /\ "solution" \in Range(steps))
        => (solve_config.thread_count >= 1 /\ result # Panic)


\* ------------------------------------------- the telemetry at 64-bit width
\* A u64 is held as limbs of 16 bits, the least significant first; two more
\* limbs hold what a 64-bit operation loses.
Base == 65536
WordLimbs == 4
WideLimbs == WordLimbs + 2

\* The wide value of a small number.
Wide(n) == [i \in 1 .. WideLimbs |-> IF i = 1 THEN n % Base
                                     ELSE IF i = 2 THEN n \div Base ELSE 0]

RECURSIVE AddFrom(_, _, _)
AddFrom(x, c, i) ==
    IF i > Len(x) THEN <<>>
    ELSE <<(x[i] + c) % Base>> \o AddFrom(x, (x[i] + c) \div Base, i + 1)

\* x + k
AddSmall(x, k) == AddFrom(x, k, 1)

RECURSIVE MulFrom(_, _, _, _)
MulFrom(x, m, c, i) ==
    IF i > Len(x) THEN <<>>
    ELSE <<(x[i] * m + c) % Base>>
             \o MulFrom(x, m, (x[i] * m + c) \div Base, i + 1)

\* x * m
MulSmall(x, m) == MulFrom(x, m, 0, 1)

RECURSIVE RemAbove(_, _, _)
\* The remainder of the limbs above limb i on division by d.
RemAbove(x, d, i) ==
    IF i >= Len(x) THEN 0
    ELSE (RemAbove(x, d, i + 1) * Base + x[i + 1]) % d

\* x / d, the integer division.
DivSmall(x, d) ==
    [i \in 1 .. Len(x) |-> (RemAbove(x, d, i) * Base + x[i]) \div d]

\* x % d
ModSmall(x, d) == RemAbove(x, d, 0)

\* x < y
WideLess(x, y) ==
    \E i \in 1 .. WideLimbs :
        /\ x[i] < y[i]
        /\ \A j \in (i + 1) .. WideLimbs : x[j] = y[j]

\* What a wrapping 64-bit operation keeps of its result.
WrapU64(x) == [i \in 1 .. WideLimbs |-> IF i <= WordLimbs THEN x[i] ELSE 0]

\* The result is a u64.
FitsU64(x) == \A i \in (WordLimbs + 1) .. WideLimbs : x[i] = 0

\* An estimate of one more than the nonce whatever the thread count.
WideEstimatedTotalAttemptsNoStride(solution_nonce, thread_count) ==
    [exact |-> AddSmall(solution_nonce, 1),
     value |-> WrapU64(AddSmall(solution_nonce, 1)),
     overflow |-> FALSE]

\* (solution_nonce / thread_count + 1) * thread_count in u64: the value
\* a wrapping build computes, and whether an operation overflowed.
WideEstimatedTotalAttempts(solution_nonce, thread_count) ==
    LET per_thread == AddSmall(DivSmall(solution_nonce, thread_count), 1)
        total == MulSmall(WrapU64(per_thread), thread_count)
    IN [exact |-> MulSmall(per_thread, thread_count),
        value |-> WrapU64(total),
        overflow |-> ~FitsU64(per_thread) \/ ~FitsU64(total)]

\* if elapsed_millis > 0 { (total * 1000) / elapsed_millis } else { total }
WideHashRate(total_attempts, elapsed) ==
    IF elapsed > 0
    THEN [exact |-> DivSmall(MulSmall(total_attempts, 1000), elapsed),
          value |-> DivSmall(WrapU64(MulSmall(total_attempts, 1000)), elapsed),
          overflow |-> ~FitsU64(MulSmall(total_attempts, 1000))]
    ELSE [exact |-> total_attempts, value |-> total_attempts,
          overflow |-> FALSE]

\* The Ok arm of solve::solve_challenge on a u64 nonce: a division by zero
\* panics, an overflow panics in a build that checks for it and wraps in one
\* that does not.
WideTelemetry(solution_nonce, thread_count, elapsed, checks) ==
    IF thread_count = 0 THEN [panic |-> TRUE, telemetry |-> NoTelemetry]
    ELSE LET total == WideEstimatedTotalAttempts(solution_nonce, thread_count)
             rate == WideHashRate(total.value, elapsed)
         IN IF checks /\ (total.overflow \/ rate.overflow)
            THEN [panic |-> TRUE, telemetry |-> NoTelemetry]
            ELSE [panic |-> FALSE,
                  telemetry |-> [logged |-> TRUE,
                                 estimated_total_attempts |-> total.value,
                                 hash_rate |-> rate.value]]

\* The nonces the telemetry is applied to: small ones, the two around the
\* largest whose total times 1000 is a u64, and the largest an i64 holds.
WideNonces ==
    {Wide(n) : n \in {0, 3, 1000, 65535, 65536}}
        \cup {<<42990, 19398, 35127, 65, 0, 0>>,
              <<42991, 19398, 35127, 65, 0, 0>>,
              <<65535, 65535, 65535, 32767, 0, 0>>}

\* The elapsed milliseconds the telemetry is applied to.
WideElapsed == (0 .. MaxElapsed) \cup {1000}

\* The num_threads overrides the telemetry is reached with.
WideOverrides == {None} \cup {Some(k) : k \in 0 .. ScenarioThreads}

\* A search has returned Ok(solution) for some configuration, nonce and
\* elapsed time, in a build with or without overflow checks.
InitWide ==
    /\ entry = "lib"
    /\ pc = "wide_call"
    /\ config \in {[num_threads |-> nt] : nt \in WideOverrides}
    /\ arg_use_multithreaded \in BOOLEAN
    /\ available_cores = MachineCores
    /\ solve_config = SolveConfigNew(config, arg_use_multithreaded, available_cores)
    /\ now \in WideElapsed
    /\ call_time = 0
    /\ expiration_time = Deadline
    /\ verifier_accepts = TRUE
    /\ wstate = [i \in Workers |-> "unspawned"]
    /\ wargs = [i \in Workers |-> [offset |-> 0, stride |-> 0]]
    /\ outcome \in {[i \in Workers |-> IF i = 0 THEN Solution(n) ELSE NoOutcome] :
                      n \in WideNonces}
    /\ remaining_handles = <<>>
    /\ abort_requested = {}
    /\ solution_found = FALSE
    /\ accepted = {0}
    /\ first_solved = {0}
    /\ waits = 0
    /\ verify_calls = <<>>
    /\ result = Ok(outcome[0].nonce)
    /\ cumulative_attempts = [i \in Workers |-> 0]
    /\ callback = [i \in Workers |-> NoCallback]
    /\ reported = [i \in Workers |-> <<>>]
    /\ suppressed = [i \in Workers |-> 0]
    /\ solver_calls = [i \in Workers |-> 0]
    /\ steps = <<>>
    /\ elapsed_millis = 0
    /\ telemetry = NoTelemetry
    /\ outcome_count = [i \in Workers |-> 0]
    /\ earlier_calls = NoEarlierCalls
    /\ validation = NoValidation
    /\ last_logged = <<>>
    /\ logged_lines = [i \in Workers |-> <<>>]
    /\ display = NoDisplay
    /\ http = NoHttp
    /\ api_response = NoApiResponse
    /\ cli = NoCli
    /\ overflow_checks \in BOOLEAN

\* The match of solve::solve_challenge on Ok(solution), at 64-bit width.
WideTelemetryLog ==
    /\ pc = "wide_call"
    /\ LET t == WideTelemetry(result.nonce, solve_config.thread_count,
                              now - call_time, overflow_checks)
       IN /\ telemetry' = t.telemetry
          /\ result' = IF t.panic THEN Panic ELSE result
    /\ elapsed_millis' = now - call_time
    /\ steps' = <<"solution">>
    /\ pc' = "returned"
    /\ UNCHANGED <<entry, config, arg_use_multithreaded, available_cores,
                   solve_config, now, call_time, expiration_time,
                   verifier_accepts, wstate, wargs, outcome, remaining_handles,
                   abort_requested, solution_found, accepted, first_solved,
                   waits, verify_calls, progress_vars, solver_calls,
                   outcome_count, earlier_calls, validation, tracker_vars,
                   display, edge_vars>>


\* A log_solution_performance that leaves out the "+ 1".
LogSolutionPerformanceFloor(solution_nonce, thread_count, elapsed, checks) ==
    IF thread_count = 0 THEN [panic |-> TRUE, telemetry |-> NoTelemetry]
    ELSE [panic |-> FALSE,
          telemetry |->
              [logged |-> TRUE,
               estimated_total_attempts |->
                   WrapU64(MulSmall(DivSmall(solution_nonce, thread_count),
                                    thread_count)),
               hash_rate |-> Wide(0)]]

\* log_solution_performance of the CLI on a u64 nonce.
LogSolutionPerformance(solution_nonce, thread_count, elapsed, checks) ==
    IF thread_count = 0 THEN [panic |-> TRUE, telemetry |-> NoTelemetry]
    ELSE LET quotient == DivSmall(solution_nonce, thread_count)
             estimated_attempts_per_thread == AddSmall(quotient, 1)
             estimated_total_attempts ==
                 MulSmall(WrapU64(estimated_attempts_per_thread), thread_count)
             scaled == MulSmall(WrapU64(estimated_total_attempts), 1000)
             overflowed ==
                 \/ ~FitsU64(estimated_attempts_per_thread)
                 \/ ~FitsU64(estimated_total_attempts)
                 \/ elapsed > 0 /\ ~FitsU64(scaled)
             hash_rate ==
                 IF elapsed > 0 THEN DivSmall(WrapU64(scaled), elapsed)
                                ELSE WrapU64(estimated_total_attempts)
         IN IF checks /\ overflowed
            THEN [panic |-> TRUE, telemetry |-> NoTelemetry]
            ELSE [panic |-> FALSE,
                  telemetry |->
                      [logged |-> TRUE,
                       estimated_total_attempts |->
                           WrapU64(estimated_total_attempts),
                       hash_rate |-> hash_rate]]

\* The strategy solve_challenge_with_display logs.
DisplayUsesRace(sc) == sc.use_multithreaded /\ sc.thread_count > 1

\* solve_challenge_with_display makes its own SolveConfig, logs the strategy
\* and applies log_solution_performance to the solution; here to the
\* elapsed time the library measured.
WideDisplayLog ==
    /\ pc = "returned"
    /\ display.stage = "none"
    /\ LET sc == SolveConfigNew(config, arg_use_multithreaded, available_cores)
           t == LogSolutionPerformance(outcome[0].nonce, sc.thread_count,
                                       elapsed_millis, overflow_checks)
       IN display' = [display EXCEPT
                         !.stage = IF t.panic THEN "panic" ELSE "logged",
                         !.strategy = IF DisplayUsesRace(sc) THEN "race"
                                                             ELSE "single",
                         !.telemetry = t.telemetry]
    /\ UNCHANGED <<entry, pc, config, arg_use_multithreaded, available_cores,
                   solve_config, now, call_time, expiration_time,
                   verifier_accepts, wstate, wargs, outcome, remaining_handles,
                   abort_requested, solution_found, accepted, first_solved,
                   waits, verify_calls, result, progress_vars, solver_calls,
                   steps, elapsed_millis, telemetry, outcome_count,
                   earlier_calls, validation, tracker_vars, edge_vars>>

NextWide == WideTelemetryLog \/ WideDisplayLog

SpecWide == InitWide /\ [][NextWide]_vars

\* The exact value of (n div S + 1) * S.
ExactTotal(n, S) == MulSmall(AddSmall(DivSmall(n, S), 1), S)

\* C32: the estimated total attempts T logged for a winning nonce n >= 0 and
\* a thread_count S >= 1 is a multiple of S with n < T <= n + S, and it is
\* n + 1 when S = 1.
C32_EstimateBounds ==
    (pc = "returned" /\ telemetry.logged)
        => LET n == outcome[0].nonce
               S == solve_config.thread_count
               T == telemetry.estimated_total_attempts
           IN /\ S >= 1
              /\ ModSmall(T, S) = 0
              /\ WideLess(n, T)
              /\ ~WideLess(AddSmall(n, S), T)
              /\ S = 1 => T = AddSmall(n, 1)

\* The telemetry was logged for the largest nonce an i64 holds and more than
\* one thread.
C32_Witness ==
    /\ pc = "returned" /\ telemetry.logged
    /\ solve_config.thread_count > 1
    /\ outcome[0].nonce = <<65535, 65535, 65535, 32767, 0, 0>>

\* C33: for every winning nonce and every thread_count >= 1 no operation
\* of the telemetry exceeds 2^64 - 1: the call does not panic on an overflow
\* and the figures logged are the exact ones, not wrapped ones.
C33_NoOverflow ==
    (pc = "returned" /\ solve_config.thread_count >= 1)
        => LET n == outcome[0].nonce
               S == solve_config.thread_count
               e == elapsed_millis
           IN /\ result # Panic
              /\ telemetry.logged
              /\ telemetry.estimated_total_attempts = ExactTotal(n, S)
              /\ telemetry.hash_rate =
                     IF e > 0 THEN DivSmall(MulSmall(ExactTotal(n, S), 1000), e)
                              ELSE ExactTotal(n, S)

\* C34: for every nonce, thread_count and elapsed time log_solution_performance
\* computes what the telemetry of solve::solve_challenge computes, the same
\* estimated total attempts and hash rate or the same panic, and the wrapper
\* names the race exactly when the library runs it.
C34_SameTelemetry ==
    display.stage # "none"
        => /\ display.stage = "panic" <=> result = Panic
           /\ display.telemetry = telemetry
           /\ display.strategy = "race" <=> UsesRace(solve_config)

\* Both have logged the figures of a race.
C34_Witness ==
    /\ display.stage = "logged" /\ telemetry.logged
    /\ display.strategy = "race"
    /\ display.telemetry.estimated_total_attempts # outcome[0].nonce


\* --------------------------------------------- solve_challenge_with_display
\* A tracker for every verbose call.
CreatesTrackerWhenVerbose(verbose, sc) == verbose

\* let progress_tracker = if config.verbose && solve_config.use_multithreaded
CreatesTracker(verbose, sc) == verbose /\ sc.use_multithreaded

\* let verbose_progress_handle = if config.verbose { Some(tokio::spawn(..)) }
SpawnProgressTask(verbose) == IF verbose THEN "running" ELSE "none"

\* A wrapper that leaves its progress task running.
AbortProgressTaskNever(handle) == handle

\* if let Some(handle) = verbose_progress_handle { handle.abort(); }
AbortProgressTask(handle) == IF handle = "none" THEN "none" ELSE "aborted"

\* solve_challenge_with_display up to the await of the library's
\* solve_challenge: the SolveConfig of its own, the animation started, the
\* periodic task spawned and the tracker created as config.verbose says.
DisplayCall ==
    /\ display.stage = "none"
    /\ \E verbose \in BOOLEAN, nt \in Overrides, mt \in BOOLEAN :
          LET sc == SolveConfigNew([num_threads |-> nt], mt, available_cores) IN
          /\ SolveChallenge(nt, mt)
          /\ display' = [display EXCEPT
                            !.stage = "solving",
                            !.verbose = verbose,
                            !.strategy = IF DisplayUsesRace(sc) THEN "race"
                                                                ELSE "single",
                            !.animation = "started",
                            !.progress_task = SpawnProgressTask(verbose),
                            !.tracker = CreatesTracker(verbose, sc)]
    /\ UNCHANGED validation

\* The periodic task logs one more line.
ProgressTaskTick ==
    /\ display.progress_task = "running"
    /\ display.ticks < MaxTicks
    /\ display' = [display EXCEPT !.ticks = @ + 1]
    /\ UNCHANGED <<entry, pc, config, arg_use_multithreaded, available_cores,
                   solve_config, now, call_time, expiration_time,
                   verifier_accepts, wstate, wargs, outcome, remaining_handles,
                   abort_requested, solution_found, accepted, first_solved,
                   waits, verify_calls, result, progress_vars, solver_calls,
                   steps, elapsed_millis, telemetry, outcome_count,
                   earlier_calls, validation, tracker_vars, edge_vars>>

\* The library's solve_challenge has returned: the periodic task is aborted,
\* the animation is stopped, the performance is logged for a solution, and
\* the result is returned. A panic of the library unwinds through the
\* wrapper instead.
DisplayReturn ==
    /\ display.stage = "solving"
    /\ pc = "returned"
    /\ display' =
           IF result = Panic
           THEN [display EXCEPT !.stage = "panic"]
           ELSE [display EXCEPT
                    !.stage = "returned",
                    !.progress_task = AbortProgressTask(@),
                    !.animation = "stopped",
                    !.telemetry =
                        IF result.tag = "Ok"
                        THEN Telemetry(result.nonce, solve_config.thread_count,
                                       now - call_time)
                        ELSE @,
                    !.result = result]
    /\ UNCHANGED <<entry, pc, config, arg_use_multithreaded, available_cores,
                   solve_config, now, call_time, expiration_time,
                   verifier_accepts, wstate, wargs, outcome, remaining_handles,
                   abort_requested, solution_found, accepted, first_solved,
                   waits, verify_calls, result, progress_vars, solver_calls,
                   steps, elapsed_millis, telemetry, outcome_count,
                   earlier_calls, validation, tracker_vars, edge_vars>>

NextDisplay ==
    \/ DisplayCall
    \/ ProgressTaskTick
    \/ \E i \in Workers : WorkerStart(i)
    \/ \E i \in Workers : WorkerFinish(i)
    \/ RaceWait
    \/ SingleJoin
    \/ DisplayReturn

SpecDisplay == Init /\ [][NextDisplay]_vars

\* C35: when solve_challenge_with_display has returned, on a solution and on
\* an error alike, the periodic progress task, started exactly in verbose
\* mode, has been aborted, the animation has been stopped, and what the
\* wrapper returns is the library's result; the tracker is created exactly
\* when verbose and use_multithreaded are both true.
C35_HelpersStopped ==
    /\ display.stage = "returned"
          => /\ pc = "returned"
             /\ display.progress_task =
                    (IF display.verbose THEN "aborted" ELSE "none")
             /\ display.animation = "stopped"
             /\ display.result = result
             /\ result.tag \in {"Ok", "Err"}
    /\ display.stage = "solving"
          => /\ display.animation = "started"
             /\ display.progress_task =
                    (IF display.verbose THEN "running" ELSE "none")
    /\ display.stage # "none"
          => display.tracker = (display.verbose /\ arg_use_multithreaded)

\* A verbose call has returned the library's error after its periodic task
\* had logged a line.
C35_Witness ==
    /\ display.stage = "returned" /\ display.verbose
    /\ display.result.tag = "Err"
    /\ display.ticks > 0


\* ------------------------------------------------------- fetch_challenge
\* What the "status" field of the body can be: absent, not a string, or one
\* of these strings.
StatusFields == {"missing", "non_string", "OK", "ok", "ERROR", "UNKNOWN"}

\* What comes back for the request: whether send() succeeded, whether the
\* HTTP status is a success, whether the body is JSON, its "status" field,
\* whether it has a "challenge" field and whether that one deserializes.
Responses ==
    [sent : BOOLEAN, http_success : BOOLEAN, body_json : BOOLEAN,
     status : StatusFields, has_challenge : BOOLEAN, deserializes : BOOLEAN]

\* A default of "OK" for a status that is absent or not a string.
StatusStrDefaultOk(field) ==
    IF field \in {"missing", "non_string"} THEN "OK" ELSE field

\* api_response.get("status").and_then(|s| s.as_str()).unwrap_or("UNKNOWN")
StatusStr(field) ==
    IF field \in {"missing", "non_string"} THEN "UNKNOWN" ELSE field

\* The checks of fetch_challenge in their order.
FetchChecks == <<"http_status", "json", "status", "challenge", "deserialize">>

\* Whether the response passes the k-th check.
Passes(r, k) ==
    CASE k = 1 -> r.http_success
      [] k = 2 -> r.body_json
      [] k = 3 -> StatusStr(r.status) = "OK"
      [] k = 4 -> r.has_challenge
      [] OTHER -> r.deserializes

\* The error fetch_challenge returns when the k-th check fails.
FetchError(k) ==
    CASE k = 1 -> "ProcessingError: API request failed with status"
      [] k = 2 -> "NetworkError"
      [] k = 3 -> "ProcessingError: API returned error"
      [] k = 4 -> "ProcessingError: No challenge field in API response"
      [] OTHER -> "ProcessingError: Failed to deserialize challenge"

RECURSIVE FetchFrom(_, _)
\* fetch_challenge from its k-th check on.
FetchFrom(r, k) ==
    IF k > Len(FetchChecks)
    THEN [checks |-> <<>>, result |-> "Ok"]
    ELSE IF ~Passes(r, k)
         THEN [checks |-> <<FetchChecks[k]>>, result |-> FetchError(k)]
         ELSE [checks |-> <<FetchChecks[k]>> \o FetchFrom(r, k + 1).checks,
               result |-> FetchFrom(r, k + 1).result]

\* IronShieldClient::fetch_challenge on the response r.
FetchChallenge(r) ==
    IF ~r.sent THEN [checks |-> <<>>, result |-> "NetworkError"]
               ELSE FetchFrom(r, 1)

\* The request is sent and this response comes back.
FetchSend(r) ==
    /\ http.stage = "none"
    /\ http' = [http EXCEPT !.stage = "sent", !.response = r]
    /\ UNCHANGED <<entry, pc, config, arg_use_multithreaded, available_cores,
                   solve_config, now, call_time, expiration_time,
                   verifier_accepts, wstate, wargs, outcome, remaining_handles,
                   abort_requested, solution_found, accepted, first_solved,
                   waits, verify_calls, result, progress_vars, solver_calls,
                   steps, elapsed_millis, telemetry, outcome_count,
                   earlier_calls, validation, tracker_vars, display,
                   api_response, cli, overflow_checks>>

\* The rest of fetch_challenge.
FetchReturn ==
    /\ http.stage = "sent"
    /\ http' = [http EXCEPT !.stage = "done",
                            !.checks = FetchChallenge(http.response).checks,
                            !.result = FetchChallenge(http.response).result]
    /\ UNCHANGED <<entry, pc, config, arg_use_multithreaded, available_cores,
                   solve_config, now, call_time, expiration_time,
                   verifier_accepts, wstate, wargs, outcome, remaining_handles,
                   abort_requested, solution_found, accepted, first_solved,
                   waits, verify_calls, result, progress_vars, solver_calls,
                   steps, elapsed_millis, telemetry, outcome_count,
                   earlier_calls, validation, tracker_vars, display,
                   api_response, cli, overflow_checks>>

NextFetch == (\E r \in Responses : FetchSend(r)) \/ FetchReturn

SpecFetch == Init /\ [][NextFetch]_vars

\* The checks a response passes, as the claim lists them.
HoldsHttp(r) == r.sent /\ r.http_success
HoldsJson(r) == r.body_json
HoldsStatus(r) == r.status = "OK"
HoldsField(r) == r.has_challenge
HoldsChallenge(r) == r.deserializes

\* C36: fetch_challenge returns a challenge exactly when the HTTP status is
\* a success, the body is JSON, its "status" is the string "OK", it has a
\* "challenge" field and that field deserializes; the checks are made in
\* this order, the first that fails gives an error, and no later check is
\* made; a status that is absent or not a string is not "OK".
C36_FetchChecksInOrder ==
    http.stage = "done"
        => LET r == http.response
               holds == <<HoldsHttp(r), HoldsJson(r), HoldsStatus(r),
                          HoldsField(r), HoldsChallenge(r)>>
               failing == {k \in 1 .. 5 : ~holds[k]}
               first == CHOOSE k \in failing : \A j \in failing : k <= j
           IN /\ http.result = "Ok" <=> failing = {}
              /\ failing = {} => http.checks = FetchChecks
              /\ (failing # {} /\ r.sent)
                    => http.checks = SubSeq(FetchChecks, 1, first)
              /\ ~r.sent => http.checks = <<>>
              /\ r.status \in {"missing", "non_string"} => http.result # "Ok"

\* fetch_challenge has returned an error for a body without a "status",
\* although it has a challenge that deserializes.
C36_Witness ==
    /\ http.stage = "done"
    /\ http.response.status = "missing"
    /\ http.response.has_challenge /\ http.response.deserializes
    /\ http.checks = <<"http_status", "json", "status">>
    /\ http.result = "ProcessingError: API returned error"


\* ----------------------------------------------------------- ApiResponse
\* u16::MAX + 1
U16Range == 65536

\* The "status" values of the JSON from_json is applied to: absent, a
\* string, a fraction, a negative integer, or a non-negative integer.
JsonStatuses ==
    {[kind |-> k, v |-> 0] : k \in {"missing", "string", "fraction"}}
        \cup {[kind |-> "integer", v |-> n] :
                 n \in {-1, 0, 1, 199, 200, 201, 404, U16Range - 1, U16Range,
                        U16Range + 200, 2 * U16Range + 200}}

\* The JSON values from_json is applied to.
JsonValues ==
    [status : JsonStatuses, has_challenge : BOOLEAN, deserializes : BOOLEAN]

\* Value::as_u64: Some for an integer that is not negative.
AsU64(s) == IF s.kind = "integer" /\ s.v >= 0 THEN Some(s.v) ELSE None

\* n as u16: the low 16 bits.
AsU16(n) == n % U16Range

\* response.get("status").and_then(|s| s.as_u64()).unwrap_or(0) as u16
FromJsonStatus(s) ==
    AsU16(IF AsU64(s).tag = "Some" THEN AsU64(s).v ELSE 0)

\* ApiResponse::is_success
IsSuccess(status) == status = 200

\* ApiResponse::extract_challenge
ExtractChallenge(status, json) ==
    IF ~IsSuccess(status) THEN "ProcessingError: API error"
    ELSE IF ~json.has_challenge
         THEN "ProcessingError: No challenge field in API response"
         ELSE IF ~json.deserializes
              THEN "ProcessingError: Failed to deserialize challenge"
              ELSE "Ok"

\* ApiResponse::from_json(response): it returns Ok(Self { .. }) always.
FromJson(json) ==
    /\ api_response.stage = "none"
    /\ api_response' = [api_response EXCEPT
                           !.stage = "parsed",
                           !.json = json,
                           !.status = FromJsonStatus(json.status)]
    /\ UNCHANGED <<entry, pc, config, arg_use_multithreaded, available_cores,
                   solve_config, now, call_time, expiration_time,
                   verifier_accepts, wstate, wargs, outcome, remaining_handles,
                   abort_requested, solution_found, accepted, first_solved,
                   waits, verify_calls, result, progress_vars, solver_calls,
                   steps, elapsed_millis, telemetry, outcome_count,
                   earlier_calls, validation, tracker_vars, display,
                   http, cli, overflow_checks>>

\* extract_challenge is called on the ApiResponse.
ExtractCall ==
    /\ api_response.stage = "parsed"
    /\ api_response' =
           [api_response EXCEPT
               !.stage = "extracted",
               !.extracted = ExtractChallenge(api_response.status,
                                              api_response.json)]
    /\ UNCHANGED <<entry, pc, config, arg_use_multithreaded, available_cores,
                   solve_config, now, call_time, expiration_time,
                   verifier_accepts, wstate, wargs, outcome, remaining_handles,
                   abort_requested, solution_found, accepted, first_solved,
                   waits, verify_calls, result, progress_vars, solver_calls,
                   steps, elapsed_millis, telemetry, outcome_count,
                   earlier_calls, validation, tracker_vars, display,
                   http, cli, overflow_checks>>

NextResponse == (\E json \in JsonValues : FromJson(json)) \/ ExtractCall

SpecResponse == Init /\ [][NextResponse]_vars

\* C37: from_json never fails; is_success is true exactly when the "status"
\* of the JSON is the integer 200; a status that is absent or no integer
\* gives status 0; for every integer other than 200, those above 65535
\* included, is_success is false and extract_challenge returns an error.
C37_SuccessIffStatus200 ==
    api_response.stage # "none"
        => LET s == api_response.json.status IN
           /\ IsSuccess(api_response.status)
                  <=> (s.kind = "integer" /\ s.v = 200)
           /\ s.kind # "integer" => api_response.status = 0
           /\ (api_response.stage = "extracted"
                 /\ ~(s.kind = "integer" /\ s.v = 200))
                 => api_response.extracted = "ProcessingError: API error"


\* ------------------------------------------------------------------ main
\* Option<String>: the configuration paths of the command line.
GlobalPaths == {None, Some("global.toml")}
SubcommandPaths == {None, Some("sub.toml")}

\* What CliArgs::parse yields, and what loading the configuration will
\* find: whether the file loads, and the verbose setting of the
\* configuration loaded (of the file, or of the default without a path).
CliArgsSet ==
    [verbose : BOOLEAN, config_path : GlobalPaths,
     command_verbose : BOOLEAN, command_config_path : SubcommandPaths,
     loads : BOOLEAN, loaded_verbose : BOOLEAN]

\* Some(*verbose || args.verbose)
VerboseOverride(args) == Some(args.command_verbose \/ args.verbose)

\* subcommand_config_path.or(args.config_path)
FinalConfigPath(args) ==
    IF args.command_config_path.tag = "Some" THEN args.command_config_path
                                             ELSE args.config_path

\* if let Some(verbose) = verbose_override { config.set_verbose(verbose); }
ApplyVerboseOverride(verbose, verbose_override) ==
    IF verbose_override.tag = "Some" THEN verbose_override.v ELSE verbose

\* CliArgs::parse()
CliParse(args) ==
    /\ cli.stage = "none"
    /\ cli' = [cli EXCEPT !.stage = "parsed", !.args = args]
    /\ UNCHANGED <<entry, pc, config, arg_use_multithreaded, available_cores,
                   solve_config, now, call_time, expiration_time,
                   verifier_accepts, wstate, wargs, outcome, remaining_handles,
                   abort_requested, solution_found, accepted, first_solved,
                   waits, verify_calls, result, progress_vars, solver_calls,
                   steps, elapsed_millis, telemetry, outcome_count,
                   earlier_calls, validation, tracker_vars, display,
                   http, api_response, overflow_checks>>

\* main from the match on args.command to the verbose override: the path is
\* chosen, the configuration is loaded from it (an error ends main) or the
\* default is taken, and the override is applied.
MainResolve ==
    /\ cli.stage = "parsed"
    /\ LET args == cli.args
           final_config_path == FinalConfigPath(args)
       IN cli' = IF final_config_path.tag = "Some" /\ ~args.loads
                 THEN [cli EXCEPT !.stage = "failed",
                                  !.final_config_path = final_config_path]
                 ELSE [cli EXCEPT
                          !.stage = "resolved",
                          !.final_config_path = final_config_path,
                          !.verbose =
                              ApplyVerboseOverride(args.loaded_verbose,
                                                   VerboseOverride(args))]
    /\ UNCHANGED <<entry, pc, config, arg_use_multithreaded, available_cores,
                   solve_config, now, call_time, expiration_time,
                   verifier_accepts, wstate, wargs, outcome, remaining_handles,
                   abort_requested, solution_found, accepted, first_solved,
                   waits, verify_calls, result, progress_vars, solver_calls,
                   steps, elapsed_millis, telemetry, outcome_count,
                   earlier_calls, validation, tracker_vars, display,
                   http, api_response, overflow_checks>>

NextMain == (\E args \in CliArgsSet : CliParse(args)) \/ MainResolve

SpecMain == Init /\ [][NextMain]_vars

\* C38: main uses the configuration path of the subcommand when one is
\* given and the global one otherwise; the verbose flags only enable: the
\* effective verbose setting is true when the global or the subcommand flag
\* is set, and is the one of the configuration loaded when neither is.
C38_VerboseOnlyEnables ==
    cli.stage = "resolved"
        => LET args == cli.args IN
           /\ cli.final_config_path =
                  (IF args.command_config_path # None
                   THEN args.command_config_path ELSE args.config_path)
           /\ (args.verbose \/ args.command_verbose) => cli.verbose
           /\ ~(args.verbose \/ args.command_verbose)
                  => cli.verbose = args.loaded_verbose

====
